---- MODULE Spec2Model ----
(***************************************************************************)
(* Silhouette measurement engine: calculate_measurements and the functions *)
(* it calls (context/03-BACKEND-MEASUREMENT-CALCULATIONS.md).              *)
(*                                                                         *)
(* Units.  Landmark coordinates are integers in centimetres of world       *)
(* space (1 unit = 0.01 m).  Visibilities and confidences are integers in  *)
(* hundredths (0.5 = 50).  Body values are integers in tenths of a         *)
(* centimetre (round(x, 1)), garment values integers in hundredths of an   *)
(* inch.  Every other real number is an exact fraction [num, den].         *)
(* The frames are drawn from a lattice on which every measured distance is *)
(* an integer, so that the Euclidean norm is exact.                        *)
(***************************************************************************)
EXTENDS Integers, Sequences, FiniteSets, TLC

\* ------------------------------------------------------------------ bounds
\* Shoulder and hip half-widths range over 0..MaxSpread lattice steps.
MaxSpread == 1

\* --------------------------------------------------------------- constants
\* Python None in a "value" slot (values themselves are never negative).
NULL == -1

\* JavaScript null in the state of the app (a string among strings).
null == "null"

\* is_landmark_visible(landmark, threshold=0.5), in hundredths.
VisibilityThreshold == 50

\* ------------------------------------------------------------- arithmetic
RECURSIVE GCD(_, _)
GCD(a, b) == IF b = 0 THEN a ELSE GCD(b, a % b)

\* The fraction n/d (n >= 0, d > 0) in lowest terms.
Frac(n, d) == [num |-> n \div GCD(n, d), den |-> d \div GCD(n, d)]

FracAdd(p, q) == [num |-> p.num * q.den + q.num * p.den, den |-> p.den * q.den]

FracMul(p, q) == [num |-> p.num * q.num, den |-> p.den * q.den]

FracLeq(p, q) == p.num * q.den <= q.num * p.den

Abs(n) == IF n < 0 THEN -n ELSE n

Min(a, b) == IF a <= b THEN a ELSE b

\* Python round(): the integer nearest to n/d, ties to the even neighbour.
RoundHalfEven(n, d) ==
    LET q == n \div d
        r == n % d
    IN  IF 2 * r < d THEN q
        ELSE IF 2 * r > d THEN q + 1
        ELSE IF q % 2 = 0 THEN q ELSE q + 1

\* round(x, 1) of a fraction x, in tenths.
Round1(x) == RoundHalfEven(10 * x.num, x.den)

\* round(x, 2) of a fraction x, in hundredths.
Round2(x) == RoundHalfEven(100 * x.num, x.den)

\* np.linalg.norm on lattice vectors: the exact root of a perfect square.
Sqrt(n) == CHOOSE r \in 0..n : r * r = n

\* ---------------------------------------------------------------- helpers
Point(px, py, pz) == [x |-> px, y |-> py, z |-> pz]

calculate_distance_3d(landmark1, landmark2) ==
    Sqrt((landmark2.x - landmark1.x) * (landmark2.x - landmark1.x)
       + (landmark2.y - landmark1.y) * (landmark2.y - landmark1.y)
       + (landmark2.z - landmark1.z) * (landmark2.z - landmark1.z))

calculate_midpoint(landmark1, landmark2) ==
    Point((landmark1.x + landmark2.x) \div 2,
          (landmark1.y + landmark2.y) \div 2,
          (landmark1.z + landmark2.z) \div 2)

is_landmark_visible(landmark) == landmark.visibility >= VisibilityThreshold

\* Python truthiness of a "value" slot: None and 0.0 are both false.
Truthy(v) == v # NULL /\ v # 0

cm_to_inches(cm) == Frac(cm.num * 100, cm.den * 254)

inches_to_cm(inches) == Frac(inches.num * 254, inches.den * 100)

\* round(inches * 2) / 2, in hundredths of an inch.
round_to_half_inch(inches) == 50 * RoundHalfEven(2 * inches.num, inches.den)

Raised(e) == [exception |-> e]

IsRaised(r) == "exception" \in DOMAIN r

\* ------------------------------------------------------------ calibration
\* Mutant: the heel with the larger y, max(left_heel.y, right_heel.y).
LowerHeel_larger_y(lm) == IF lm[29].y > lm[30].y THEN lm[29] ELSE lm[30]

\* The lower heel: left if left.y < right.y, otherwise right.
LowerHeel(lm) == IF lm[29].y < lm[30].y THEN lm[29] ELSE lm[30]

\* Confidence from height_ratio = detected_height_m / actual_height_m.
CalibrationConfidence(height_ratio) ==
    IF FracLeq(Frac(8, 10), height_ratio) /\ FracLeq(height_ratio, Frac(12, 10))
    THEN 95
    ELSE IF FracLeq(Frac(6, 10), height_ratio) /\ FracLeq(height_ratio, Frac(14, 10))
    THEN 80
    ELSE 60

\* nose_to_heel_m = |heel.y - nose.y| / 100, detected_height_m = that * 1.15,
\* calibration_factor = (actual_height_cm / 100) / detected_height_m: the
\* float division raises ZeroDivisionError when the span is 0.  landmarks[0],
\* landmarks[29] and landmarks[30] raise IndexError on a shorter list.
calculate_calibration_factor(lm, actual_height_cm) ==
    LET nose == lm[0]
        heel == LowerHeel(lm)
        nose_to_heel_m == Frac(Abs(heel.y - nose.y), 100)
        detected_height_m == FracMul(nose_to_heel_m, Frac(115, 100))
        actual_height_m == Frac(actual_height_cm, 100)
    IN  IF ~({0, 29, 30} \subseteq DOMAIN lm)
        THEN Raised("IndexError")
        ELSE IF detected_height_m.num = 0
        THEN Raised("ZeroDivisionError")
        ELSE [calibration_factor |->
                  Frac(actual_height_m.num * detected_height_m.den,
                       actual_height_m.den * detected_height_m.num),
              confidence |->
                  CalibrationConfidence(
                      Frac(detected_height_m.num * actual_height_m.den,
                           detected_height_m.den * actual_height_m.num)),
              detected_height_m |-> detected_height_m,
              detected_height_cm |-> FracMul(detected_height_m, Frac(100, 1))]

\* ------------------------------------------------------- body measurements
\* distance (in lattice units = cm of world space) times the factor:
\* distance_m * 100 * calibration_factor.
ScaleToCm(distance, parts, cf) == Frac(distance * cf.num, parts * cf.den)

NotComputed(err) ==
    [value |-> NULL, unit |-> "cm", confidence |-> 0, error |-> err]

\* Mutant: the visibility average is computed before the visibility check and
\* reported as the confidence of a null value.
calculate_shoulder_width_confidence_first(lm, cf) ==
    IF ~(is_landmark_visible(lm[11]) /\ is_landmark_visible(lm[12]))
    THEN [value |-> NULL, unit |-> "cm",
          confidence |-> Round2(Frac(lm[11].visibility + lm[12].visibility, 200)),
          error |-> "Shoulders not visible"]
    ELSE [value |-> Round1(ScaleToCm(calculate_distance_3d(lm[11], lm[12]), 1, cf)),
          unit |-> "cm",
          confidence |-> Round2(Frac(Min(196, lm[11].visibility + lm[12].visibility), 200))]

\* Mutant: one visible shoulder is enough ("or" for "and").
calculate_shoulder_width_either(lm, cf) ==
    IF ~(is_landmark_visible(lm[11]) \/ is_landmark_visible(lm[12]))
    THEN NotComputed("Shoulders not visible")
    ELSE [value |-> Round1(ScaleToCm(calculate_distance_3d(lm[11], lm[12]), 1, cf)),
          unit |-> "cm",
          confidence |-> Round2(Frac(Min(196, lm[11].visibility + lm[12].visibility), 200))]

calculate_shoulder_width(lm, cf) ==
    LET left_shoulder == lm[11]
        right_shoulder == lm[12]
    IN  IF ~(is_landmark_visible(left_shoulder) /\ is_landmark_visible(right_shoulder))
        THEN NotComputed("Shoulders not visible")
        ELSE LET distance == calculate_distance_3d(left_shoulder, right_shoulder)
                 visibility_avg ==
                     Frac(left_shoulder.visibility + right_shoulder.visibility, 200)
                 confidence ==
                     IF FracLeq(Frac(98, 100), visibility_avg)
                     THEN Frac(98, 100) ELSE visibility_avg
             IN  [value |-> Round1(ScaleToCm(distance, 1, cf)),
                  unit |-> "cm",
                  confidence |-> Round2(confidence)]

calculate_hip_width(lm, cf) ==
    LET left_hip == lm[23]
        right_hip == lm[24]
    IN  IF ~(is_landmark_visible(left_hip) /\ is_landmark_visible(right_hip))
        THEN NotComputed("Hips not visible")
        ELSE LET distance == calculate_distance_3d(left_hip, right_hip)
                 visibility_avg ==
                     Frac(left_hip.visibility + right_hip.visibility, 200)
                 confidence ==
                     IF FracLeq(Frac(92, 100), visibility_avg)
                     THEN Frac(92, 100) ELSE visibility_avg
             IN  [value |-> Round1(ScaleToCm(distance, 1, cf)),
                  unit |-> "cm",
                  confidence |-> Round2(confidence)]

\* Mutant: "if not shoulder_result['value']" for "is None", so that a shoulder
\* width of 0.0 counts as missing.
calculate_chest_circumference_falsy(lm, cf) ==
    IF ~Truthy(calculate_shoulder_width(lm, cf).value)
    THEN NotComputed("Cannot calculate without shoulder reference")
    ELSE [value |-> Round1(Frac(calculate_shoulder_width(lm, cf).value * 22, 100)),
          unit |-> "cm",
          confidence |-> 75,
          notes |-> "Estimated from shoulder width using anthropometric ratio"]

\* Called by calculate_measurements without shoulder_width_cm, so the
\* shoulder width is always recomputed from the landmarks.
calculate_chest_circumference(lm, cf) ==
    LET shoulder_result == calculate_shoulder_width(lm, cf)
    IN  IF shoulder_result.value = NULL
        THEN NotComputed("Cannot calculate without shoulder reference")
        ELSE [value |-> Round1(Frac(shoulder_result.value * 22, 100)),
              unit |-> "cm",
              confidence |-> 75,
              notes |-> "Estimated from shoulder width using anthropometric ratio"]

\* Called without hip_width_cm: the hip width is recomputed.
calculate_waist_circumference(lm, cf) ==
    LET hip_result == calculate_hip_width(lm, cf)
    IN  IF hip_result.value = NULL
        THEN NotComputed("Cannot calculate without hip reference")
        ELSE [value |-> Round1(Frac(hip_result.value * 20 * 90, 10 * 10 * 100)),
              unit |-> "cm",
              confidence |-> 70,
              notes |-> "Estimated from hip width using anthropometric ratio"]

\* The class Point is bound only inside the left-arm branch: with the left
\* wrist not visible and the right wrist visible, the right-arm branch reads
\* an unbound local and raises UnboundLocalError.
calculate_arm_length(lm, cf) ==
    LET shoulder_center == calculate_midpoint(lm[11], lm[12])
        left == is_landmark_visible(lm[15])
        right == is_landmark_visible(lm[16])
        left_length == IF left THEN calculate_distance_3d(shoulder_center, lm[15]) ELSE 0
        right_length == IF right THEN calculate_distance_3d(shoulder_center, lm[16]) ELSE 0
        arms_measured == (IF left THEN 1 ELSE 0) + (IF right THEN 1 ELSE 0)
        total_length == left_length + right_length
    IN  IF right /\ ~left
        THEN Raised("UnboundLocalError")
        ELSE IF arms_measured = 0
        THEN NotComputed("Arms not visible")
        ELSE [value |-> Round1(ScaleToCm(total_length, arms_measured, cf)),
              unit |-> "cm",
              confidence |-> IF arms_measured = 2 THEN 93 ELSE 80,
              notes |-> IF arms_measured = 2 THEN "Average of 2 arm(s)"
                                              ELSE "Average of 1 arm(s)"]

\* Mutant: the confidence is the visibility average capped at 0.90.
calculate_torso_length_visibility_confidence(lm, cf) ==
    IF ~(/\ is_landmark_visible(lm[11]) /\ is_landmark_visible(lm[12])
         /\ is_landmark_visible(lm[23]) /\ is_landmark_visible(lm[24]))
    THEN NotComputed("Shoulders or hips not visible")
    ELSE [value |-> Round1(ScaleToCm(
                        calculate_distance_3d(calculate_midpoint(lm[11], lm[12]),
                                              calculate_midpoint(lm[23], lm[24])), 1, cf)),
          unit |-> "cm",
          confidence |-> Round2(Frac(Min(360, lm[11].visibility + lm[12].visibility
                                              + lm[23].visibility + lm[24].visibility),
                                     400))]

calculate_torso_length(lm, cf) ==
    LET shoulders_visible == is_landmark_visible(lm[11]) /\ is_landmark_visible(lm[12])
        hips_visible == is_landmark_visible(lm[23]) /\ is_landmark_visible(lm[24])
    IN  IF ~(shoulders_visible /\ hips_visible)
        THEN NotComputed("Shoulders or hips not visible")
        ELSE LET shoulder_center == calculate_midpoint(lm[11], lm[12])
                 hip_center == calculate_midpoint(lm[23], lm[24])
                 distance == calculate_distance_3d(shoulder_center, hip_center)
             IN  [value |-> Round1(ScaleToCm(distance, 1, cf)),
                  unit |-> "cm",
                  confidence |-> 90]

calculate_inseam_length(lm, cf) ==
    LET hip_center == calculate_midpoint(lm[23], lm[24])
        left == is_landmark_visible(lm[27])
        right == is_landmark_visible(lm[28])
        left_length == IF left THEN calculate_distance_3d(hip_center, lm[27]) ELSE 0
        right_length == IF right THEN calculate_distance_3d(hip_center, lm[28]) ELSE 0
        legs_measured == (IF left THEN 1 ELSE 0) + (IF right THEN 1 ELSE 0)
        total_length == left_length + right_length
    IN  IF legs_measured = 0
        THEN NotComputed("Ankles not visible")
        ELSE [value |-> Round1(ScaleToCm(total_length, legs_measured, cf)),
              unit |-> "cm",
              confidence |-> IF legs_measured = 2 THEN 88 ELSE 75,
              notes |-> IF legs_measured = 2 THEN "Average of 2 leg(s)"
                                              ELSE "Average of 1 leg(s)"]

\* Mutant: no ankle visibility check; the leg opening follows the hips alone.
calculate_leg_opening_no_ankles(lm, cf) ==
    IF Truthy(calculate_hip_width(lm, cf).value)
    THEN [value |-> Round1(Frac(calculate_hip_width(lm, cf).value * 47, 10 * 100)),
          unit |-> "cm",
          confidence |-> 75,
          notes |-> "Estimated from hip proportions"]
    ELSE [value |-> Round1(Frac(180, 10)),
          unit |-> "cm",
          confidence |-> 50,
          notes |-> "Estimated from hip proportions"]

calculate_leg_opening(lm, cf) ==
    IF ~(is_landmark_visible(lm[27]) /\ is_landmark_visible(lm[28]))
    THEN NotComputed("Ankles not visible")
    ELSE LET hip_result == calculate_hip_width(lm, cf)
         IN  IF Truthy(hip_result.value)
             THEN [value |-> Round1(Frac(hip_result.value * 47, 10 * 100)),
                   unit |-> "cm",
                   confidence |-> 75,
                   notes |-> "Estimated from hip proportions"]
             ELSE [value |-> Round1(Frac(180, 10)),
                   unit |-> "cm",
                   confidence |-> 50,
                   notes |-> "Estimated from hip proportions"]

\* ----------------------------------------------------- garment measurements
\* A body value in tenths of a centimetre, as a fraction of centimetres.
Cm(v) == Frac(v, 10)

GarmentNull == [value |-> NULL, unit |-> "inches", confidence |-> 0]

GarmentValue(cm, conf, note) ==
    [value |-> round_to_half_inch(cm_to_inches(cm)),
     unit |-> "inches",
     confidence |-> conf,
     notes |-> note]

\* body_measurements["shoulder_width"]["value"] or 45.0
ShoulderOrDefault(bm) ==
    IF Truthy(bm.shoulder_width.value) THEN Cm(bm.shoulder_width.value) ELSE Frac(450, 10)

calculate_shirt_measurements(bm) ==
    [shoulder |->
        IF Truthy(bm.shoulder_width.value)
        THEN GarmentValue(Cm(bm.shoulder_width.value),
                          bm.shoulder_width.confidence, "Direct body measurement")
        ELSE GarmentNull,
     chest |->
        IF Truthy(bm.chest_circumference.value)
        THEN GarmentValue(FracAdd(Cm(bm.chest_circumference.value),
                                  inches_to_cm(Frac(20, 10))),
                          bm.chest_circumference.confidence,
                          "Includes 2-inch ease for regular fit")
        ELSE GarmentNull,
     sleeves |->
        IF Truthy(bm.arm_length.value)
        THEN GarmentValue(FracAdd(Cm(bm.arm_length.value),
                                  FracMul(ShoulderOrDefault(bm), Frac(1, 2))),
                          bm.arm_length.confidence,
                          "Measured from center back to wrist")
        ELSE GarmentNull,
     length |->
        IF Truthy(bm.torso_length.value)
        THEN GarmentValue(FracAdd(Cm(bm.torso_length.value), Frac(150, 10)),
                          bm.torso_length.confidence,
                          "Measured from high point shoulder to hem")
        ELSE GarmentNull]

\* Mutant: the rise falls back on a default torso length of 60.0 cm.
calculate_pants_measurements_default_torso(bm) ==
    [waist |->
        IF Truthy(bm.waist_circumference.value)
        THEN GarmentValue(Cm(bm.waist_circumference.value),
                          bm.waist_circumference.confidence,
                          "Natural waist measurement")
        ELSE GarmentNull,
     inseam |->
        IF Truthy(bm.inseam_length.value)
        THEN GarmentValue(Cm(bm.inseam_length.value),
                          bm.inseam_length.confidence,
                          "Crotch to ankle measurement")
        ELSE GarmentNull,
     rise |->
        GarmentValue(FracMul(IF Truthy(bm.torso_length.value)
                             THEN Cm(bm.torso_length.value) ELSE Frac(600, 10),
                             Frac(28, 100)),
                     70, "Estimated from torso proportions"),
     leg |->
        IF Truthy(bm.leg_opening.value)
        THEN GarmentValue(Cm(bm.leg_opening.value),
                          bm.leg_opening.confidence, "Leg opening diameter")
        ELSE GarmentNull]

calculate_pants_measurements(bm) ==
    [waist |->
        IF Truthy(bm.waist_circumference.value)
        THEN GarmentValue(Cm(bm.waist_circumference.value),
                          bm.waist_circumference.confidence,
                          "Natural waist measurement")
        ELSE GarmentNull,
     inseam |->
        IF Truthy(bm.inseam_length.value)
        THEN GarmentValue(Cm(bm.inseam_length.value),
                          bm.inseam_length.confidence,
                          "Crotch to ankle measurement")
        ELSE GarmentNull,
     rise |->
        IF Truthy(bm.torso_length.value)
        THEN GarmentValue(FracMul(Cm(bm.torso_length.value), Frac(28, 100)),
                          70, "Estimated from torso proportions")
        ELSE GarmentNull,
     leg |->
        IF Truthy(bm.leg_opening.value)
        THEN GarmentValue(Cm(bm.leg_opening.value),
                          bm.leg_opening.confidence, "Leg opening diameter")
        ELSE GarmentNull]

calculate_jacket_measurements(bm) ==
    [shoulder |->
        IF Truthy(bm.shoulder_width.value)
        THEN GarmentValue(FracAdd(Cm(bm.shoulder_width.value), Frac(10, 10)),
                          bm.shoulder_width.confidence,
                          "Slightly wider than shirt for layering")
        ELSE GarmentNull,
     chest |->
        IF Truthy(bm.chest_circumference.value)
        THEN GarmentValue(FracAdd(Cm(bm.chest_circumference.value),
                                  inches_to_cm(Frac(40, 10))),
                          bm.chest_circumference.confidence,
                          "Includes 4-inch ease for jacket fit")
        ELSE GarmentNull,
     sleeves |->
        IF Truthy(bm.arm_length.value)
        THEN GarmentValue(FracAdd(FracAdd(Cm(bm.arm_length.value),
                                          FracMul(ShoulderOrDefault(bm), Frac(1, 2))),
                                  Frac(25, 10)),
                          bm.arm_length.confidence,
                          "Slightly longer than shirt sleeve")
        ELSE GarmentNull,
     length |->
        IF Truthy(bm.torso_length.value)
        THEN GarmentValue(FracAdd(Cm(bm.torso_length.value), Frac(180, 10)),
                          bm.torso_length.confidence, "Standard jacket length")
        ELSE GarmentNull]

\* ------------------------------------------------- calculate_measurements
\* The keys of body_measurements, in the order of the dict literal.
SlotOrder ==
    <<"shoulder_width", "chest_circumference", "waist_circumference", "hip_width",
      "arm_length", "torso_length", "inseam_length", "leg_opening">>

Slots == {SlotOrder[i] : i \in 1..Len(SlotOrder)}

RECURSIVE MissingFrom(_, _)
\* [key for key, val in body_measurements.items() if val["value"] is None]
\* over the keys from position i on.
MissingFrom(bm, i) ==
    IF i > Len(SlotOrder) THEN << >>
    ELSE IF bm[SlotOrder[i]].value = NULL
         THEN <<SlotOrder[i]>> \o MissingFrom(bm, i + 1)
         ELSE MissingFrom(bm, i + 1)

\* sum(1 for m in body_measurements.values() if m["value"] is not None)
available_count(bm) == Cardinality({k \in Slots : bm[k].value # NULL})

total_count(bm) == Cardinality(DOMAIN bm)

\* Mutant: missing lists the keys whose value is falsy ("if not
\* val['value']"), so a value of 0.0 is named as missing.
determine_status_missing_falsy(bm) ==
    IF available_count(bm) = total_count(bm)
    THEN [status |-> "success",
          message |-> "Measurements calculated successfully",
          warnings |-> << >>]
    ELSE IF available_count(bm) > 0
    THEN [status |-> "partial_success",
          message |-> "Some body landmarks not detected. Partial measurements returned.",
          warnings |->
              << [text |-> "Missing measurements",
                  names |-> SelectSeq(SlotOrder, LAMBDA k : ~Truthy(bm[k].value))],
                 [text |-> "Please upload another photo for best results",
                  names |-> << >>] >>]
    ELSE [status |-> "error",
          message |-> "Could not calculate measurements",
          warnings |->
              << [text |-> "No body landmarks detected with sufficient confidence",
                  names |-> << >>] >>]

\* Mutant: available_count counts the truthy values ("if m['value']"), so a
\* value of 0.0 counts as missing.
determine_status_truthy(bm) ==
    LET available == Cardinality({k \in Slots : Truthy(bm[k].value)})
    IN  IF available = total_count(bm)
        THEN [status |-> "success",
              message |-> "Measurements calculated successfully",
              warnings |-> << >>]
        ELSE IF available > 0
        THEN [status |-> "partial_success",
              message |-> "Some body landmarks not detected. Partial measurements returned.",
              warnings |->
                  << [text |-> "Please upload another photo for best results",
                      names |-> << >>] >>]
        ELSE [status |-> "error",
              message |-> "Could not calculate measurements",
              warnings |->
                  << [text |-> "No body landmarks detected with sufficient confidence",
                      names |-> << >>] >>]

\* Step 4 of calculate_measurements: status, message and warnings.
determine_status(bm) ==
    IF available_count(bm) = total_count(bm)
    THEN [status |-> "success",
          message |-> "Measurements calculated successfully",
          warnings |-> << >>]
    ELSE IF available_count(bm) > 0
    THEN [status |-> "partial_success",
          message |-> "Some body landmarks not detected. Partial measurements returned.",
          warnings |->
              IF MissingFrom(bm, 1) # << >>
              THEN << [text |-> "Missing measurements", names |-> MissingFrom(bm, 1)],
                      [text |-> "Please upload another photo for best results",
                       names |-> << >>] >>
              ELSE << >>]
    ELSE [status |-> "error",
          message |-> "Could not calculate measurements",
          warnings |->
              << [text |-> "No body landmarks detected with sufficient confidence",
                  names |-> << >>] >>]

\* Step 5: the response; "warnings" is a key only when the list is non-empty.
build_response(st, bm, gm, cf) ==
    LET base == [status |-> st.status,
                 message |-> st.message,
                 body_measurements |-> bm,
                 garment_measurements |-> gm,
                 calibration_factor |-> cf]
    IN  IF st.warnings # << >>
        THEN [k \in DOMAIN base \cup {"warnings"} |->
                 IF k = "warnings" THEN st.warnings ELSE base[k]]
        ELSE base

\* The dict literal of step 2, arm being calculate_arm_length's return value.
BodyMeasurementsDict(lm, cf, arm) ==
    [shoulder_width |-> calculate_shoulder_width(lm, cf),
     chest_circumference |-> calculate_chest_circumference(lm, cf),
     waist_circumference |-> calculate_waist_circumference(lm, cf),
     hip_width |-> calculate_hip_width(lm, cf),
     arm_length |-> arm,
     torso_length |-> calculate_torso_length(lm, cf),
     inseam_length |-> calculate_inseam_length(lm, cf),
     leg_opening |-> calculate_leg_opening(lm, cf)]

\* The dict literal of step 3.
GarmentMeasurementsDict(bm) ==
    [shirt |-> calculate_shirt_measurements(bm),
     pants |-> calculate_pants_measurements(bm),
     jacket |-> calculate_jacket_measurements(bm)]

\* Mutant: a weight that is present adds a body-mass index to the result.
calculate_measurements_with_bmi(lm, height, weight) ==
    LET cal == calculate_calibration_factor(lm, height)
        arm == calculate_arm_length(lm, cal.calibration_factor)
        bm == BodyMeasurementsDict(lm, cal.calibration_factor, arm)
        res == build_response(determine_status(bm), bm, GarmentMeasurementsDict(bm),
                              cal.calibration_factor)
    IN  IF IsRaised(cal) THEN cal
        ELSE IF IsRaised(arm) THEN arm
        ELSE IF weight = NULL THEN res
        ELSE [k \in DOMAIN res \cup {"bmi"} |->
                 IF k = "bmi" THEN (weight * 10000) \div (height * height) ELSE res[k]]

\* calculate_measurements(landmarks, height_cm, weight_kg) as one function:
\* the returned dict, or the exception that leaves it.  weight_kg is a
\* parameter no statement reads.
calculate_measurements(lm, height, weight) ==
    LET cal == calculate_calibration_factor(lm, height)
        arm == calculate_arm_length(lm, cal.calibration_factor)
        bm == BodyMeasurementsDict(lm, cal.calibration_factor, arm)
    IN  IF IsRaised(cal) THEN cal
        ELSE IF IsRaised(arm) THEN arm
        ELSE build_response(determine_status(bm), bm, GarmentMeasurementsDict(bm),
                            cal.calibration_factor)

\* ------------------------------------------------------------------ inputs
\* Heights accepted by the endpoint: 50 <= height_cm <= 250.
Heights == {50, 175, 250}

\* Landmarks whose visibility the measurement functions read.
ReadLandmarks == {11, 12, 15, 16, 23, 24, 27, 28}

\* Visibilities on both sides of the 0.5 threshold.  The shoulders also take
\* the threshold itself and a value above the ceiling, so that their average
\* falls below and above the cap; the hips, wrists and ankles take one value
\* on each side.
VisibilitiesOf(i) ==
    IF i \in {11, 12} THEN {49, 50, 100}
    ELSE IF i \in {23, 24} THEN {49, 100}
    ELSE {49, 50}

VisibilityChoices ==
    { v \in [ReadLandmarks -> {49, 50, 100}] : \A i \in ReadLandmarks : v[i] \in VisibilitiesOf(i) }

LM(px, py, pz, v) == [x |-> px, y |-> py, z |-> pz, visibility |-> v]

\* Visibilities <<landmarks 0-22, landmarks 23-32>> of the 25 landmarks whose
\* visibility no function reads: none visible, all visible, and the upper
\* body only.
OtherVisibilityChoices == {<<0, 0>>, <<100, 100>>, <<100, 0>>}

\* A 33-landmark frame.  v gives the visibilities of the landmarks the
\* functions read, ov that of the 25 others; kS and kH are the shoulder and
\* hip half-widths in lattice steps (0 makes the pair coincide); ny, ly, ry
\* are the heights of the nose and of the left and right heel.
Frame(v, ov, kS, kH, ny, ly, ry) ==
    [i \in 0..32 |->
        CASE i = 0  -> LM(0, ny, 0, ov[1])
          [] i = 11 -> LM(20 * kS, 40, 0, v[11])
          [] i = 12 -> LM(-20 * kS, 40, 0, v[12])
          [] i = 15 -> LM(30, 80, 0, v[15])
          [] i = 16 -> LM(0, 88, 36, v[16])
          [] i = 23 -> LM(14 * kH, 100, 0, v[23])
          [] i = 24 -> LM(-14 * kH, 100, 0, v[24])
          [] i = 27 -> LM(18, 180, 0, v[27])
          [] i = 28 -> LM(0, 190, 0, v[28])
          [] i = 29 -> LM(6, ly, 0, ov[2])
          [] i = 30 -> LM(-6, ry, 0, ov[2])
          [] OTHER  -> LM(0, 0, 0, IF i <= 22 THEN ov[1] ELSE ov[2])]

\* Heights <<nose.y, left_heel.y, right_heel.y>>: the left heel lower with a
\* zero nose-to-heel span, the left heel lower with a span, the right heel
\* lower, and the two heels level.
SpanChoices == {<<0, 0, 300>>, <<100, 0, 300>>, <<100, 300, 0>>, <<100, 300, 300>>}

Frames ==
    { Frame(v, ov, kS, kH, sp[1], sp[2], sp[3]) :
        v \in VisibilityChoices,
        ov \in OtherVisibilityChoices,
        kS \in 0..MaxSpread,
        kH \in 0..MaxSpread,
        sp \in SpanChoices }

\* ------------------------------------------------------------------- state
VARIABLES
    landmarks,            \* the frame handed to calculate_measurements
    height_cm,            \* the user's height
    pc,                   \* position in calculate_measurements
    calibration_result,   \* step 1
    body_measurements,    \* step 2
    garment_measurements, \* step 3
    result,               \* the returned dict
    exc                   \* the exception that left the function, or "none"

\* POST /measure (get_measurement).
VARIABLES
    weight_kg,            \* the optional form field, NULL when absent
    file,                 \* the uploaded file
    contents_read,        \* file.read() has been awaited
    pose_processed,       \* pose.process() has run
    measured,             \* calculate_measurements has been called
    response              \* the JSON body returned, or the HTTPException raised

endpoint_vars == <<weight_kg, file, contents_read, pose_processed, measured, response>>

\* Successive calls of calculate_measurements by one process.
VARIABLES
    invocations,          \* number of calls made
    history               \* arguments and outcome of every call made

caller_vars == <<invocations, history>>

\* The mobile app: AsyncStorage, the root layout and the welcome page.
VARIABLES
    asyncStorage,         \* key -> stored string, null when the key is absent
    app,                  \* "closed" or "running"
    isLoading,            \* RootLayout state
    initialRoute,         \* RootLayout state, null before it is set
    segments,             \* segments[0], the route shown
    selectedImage,        \* WelcomePage state, null when no photo is selected
    isUploading,          \* WelcomePage state
    upload_pc,            \* position in handleUploadPhoto
    alert,                \* title of the last Alert.alert, null when none
    launches              \* number of launches so far

app_vars == <<asyncStorage, app, isLoading, initialRoute, segments, selectedImage,
              isUploading, upload_pc, alert, launches>>

engine_vars == <<landmarks, height_cm, pc, calibration_result, body_measurements,
                 garment_measurements, result, exc>>

\* The onboarding page.
VARIABLES
    params_photoUri,      \* params.photoUri of the route, null when absent
    form_height,          \* OnboardingPage state height (the TextInput)
    form_weight,          \* OnboardingPage state weight (the TextInput)
    isSubmitting,         \* OnboardingPage state
    analysisProgress,     \* OnboardingPage state
    submissions,          \* the calls of handleContinue that passed its guard
    alertResult           \* the result the open alert's buttons close over

onboarding_vars == <<params_photoUri, form_height, form_weight, isSubmitting, analysisProgress,
                     submissions, alertResult>>

\* The garment editor.
VARIABLES
    backendMeasurements,  \* route parameter measurements, null when absent
    measurements,         \* GarmentEditor state
    hasAppliedBackendMeasurements,   \* GarmentEditor state
    saveTimeout,          \* what the pending timer of debouncedSave will save
    effects,              \* the runs of initializeMeasurements
    storageQueue,         \* AsyncStorage operations issued and not yet done
    edits                 \* number of calls of handleMeasurementChange

editor_vars == <<backendMeasurements, measurements, hasAppliedBackendMeasurements,
                 saveTimeout, effects, storageQueue, edits>>

\* One call of analyzeMeasurements.
VARIABLES
    call,                 \* its arguments and what the network will do
    settled               \* how its promise settled, with the requests made

analysis_vars == <<call, settled>>

client_vars == <<onboarding_vars, editor_vars, analysis_vars>>

vars == <<engine_vars, endpoint_vars, caller_vars, app_vars, client_vars>>

Unset == [unset |-> TRUE]

\* The parts of the state a specification does not use.
EndpointIdle ==
    /\ weight_kg = NULL
    /\ file = Unset
    /\ contents_read = FALSE
    /\ pose_processed = FALSE
    /\ measured = FALSE
    /\ response = Unset

CallerIdle ==
    /\ invocations = 0
    /\ history = {}

AppIdle ==
    /\ asyncStorage = Unset
    /\ app = "closed"
    /\ isLoading = TRUE
    /\ initialRoute = null
    /\ segments = "index"
    /\ selectedImage = null
    /\ isUploading = FALSE
    /\ upload_pc = "idle"
    /\ alert = null
    /\ launches = 0

OnboardingIdle ==
    /\ params_photoUri = null
    /\ form_height = Unset
    /\ form_weight = Unset
    /\ isSubmitting = FALSE
    /\ analysisProgress = ""
    /\ submissions = << >>
    /\ alertResult = Unset

EditorIdle ==
    /\ backendMeasurements = null
    /\ measurements = Unset
    /\ hasAppliedBackendMeasurements = FALSE
    /\ saveTimeout = Unset
    /\ effects = << >>
    /\ storageQueue = << >>
    /\ edits = 0

AnalysisIdle ==
    /\ call = Unset
    /\ settled = Unset

ClientIdle ==
    /\ OnboardingIdle
    /\ EditorIdle
    /\ AnalysisIdle

EngineIdle ==
    /\ landmarks = Unset
    /\ height_cm = NULL
    /\ pc = "idle"
    /\ calibration_result = Unset
    /\ body_measurements = Unset
    /\ garment_measurements = Unset
    /\ result = Unset
    /\ exc = "none"

Init ==
    /\ landmarks \in Frames
    /\ height_cm \in Heights
    /\ pc = "calibrate"
    /\ calibration_result = Unset
    /\ body_measurements = Unset
    /\ garment_measurements = Unset
    /\ result = Unset
    /\ exc = "none"
    /\ EndpointIdle
    /\ CallerIdle
    /\ AppIdle
    /\ ClientIdle

\* 1. CALCULATE CALIBRATION FACTOR
CalculateCalibrationFactor ==
    /\ pc = "calibrate"
    /\ LET r == calculate_calibration_factor(landmarks, height_cm)
       IN  IF IsRaised(r)
           THEN /\ pc' = "raised"
                /\ exc' = r.exception
                /\ UNCHANGED calibration_result
           ELSE /\ pc' = "body"
                /\ calibration_result' = r
                /\ UNCHANGED exc
    /\ UNCHANGED <<landmarks, height_cm, body_measurements, garment_measurements, result>>
    /\ UNCHANGED <<endpoint_vars, caller_vars, app_vars, client_vars>>

\* 2. CALCULATE BODY MEASUREMENTS: the dict literal evaluates the eight calls
\* in order; an exception in one of them leaves calculate_measurements.
CalculateBodyMeasurements ==
    /\ pc = "body"
    /\ LET cf == calibration_result.calibration_factor
           arm == calculate_arm_length(landmarks, cf)
       IN  IF IsRaised(arm)
           THEN /\ pc' = "raised"
                /\ exc' = arm.exception
                /\ UNCHANGED body_measurements
           ELSE /\ pc' = "garment"
                /\ body_measurements' = BodyMeasurementsDict(landmarks, cf, arm)
                /\ UNCHANGED exc
    /\ UNCHANGED <<landmarks, height_cm, calibration_result, garment_measurements, result>>
    /\ UNCHANGED <<endpoint_vars, caller_vars, app_vars, client_vars>>

\* 3. CALCULATE GARMENT MEASUREMENTS
CalculateGarmentMeasurements ==
    /\ pc = "garment"
    /\ garment_measurements' = GarmentMeasurementsDict(body_measurements)
    /\ pc' = "status"
    /\ UNCHANGED <<landmarks, height_cm, calibration_result, body_measurements, result, exc>>
    /\ UNCHANGED <<endpoint_vars, caller_vars, app_vars, client_vars>>

\* 4. DETERMINE STATUS and 5. BUILD RESPONSE
DetermineStatus ==
    /\ pc = "status"
    /\ result' = build_response(determine_status(body_measurements),
                                body_measurements, garment_measurements,
                                calibration_result.calibration_factor)
    /\ pc' = "done"
    /\ UNCHANGED <<landmarks, height_cm, calibration_result, body_measurements,
                   garment_measurements, exc>>
    /\ UNCHANGED <<endpoint_vars, caller_vars, app_vars, client_vars>>

Next ==
    \/ CalculateCalibrationFactor
    \/ CalculateBodyMeasurements
    \/ CalculateGarmentMeasurements
    \/ DetermineStatus

Spec == Init /\ [][Next]_vars

\* ------------------------------------------------------- POST /measure
\* Mutant: any positive height passes the validation.
height_valid_positive(height) == height > 0

\* 50 <= height_cm <= 250
height_valid(height) == 50 <= height /\ height <= 250

HTTPException(code, error_code) ==
    [status_code |-> code, status |-> "error", error_code |-> error_code]

\* len(landmarks)
len(lm) == Cardinality(DOMAIN lm)

\* The first n landmarks of a frame.
Truncated(f, n) == [i \in 0..(n - 1) |-> f[i]]

\* results.pose_world_landmarks is None.
NoPose == [detected |-> FALSE]

Pose(lm) == [detected |-> TRUE, landmark |-> lm]

\* cv2.imdecode returns None.
NotAnImage == [decodes |-> FALSE]

Image(w, h, p) == [decodes |-> TRUE, width |-> w, height |-> h, pose |-> p]

ContentTypes == {"image/jpeg", "image/png", "application/pdf"}

\* <<width, height>> on both sides of the 640 x 480 minimum.
Resolutions == {<<640, 479>>, <<640, 480>>}

\* Lengths of the landmark list: too short for landmarks[29], long enough
\* for every index the functions read but shorter than 33, and 33.
LandmarkCounts == {25, 31, 33}

\* The frames pose detection returns: the shoulders, the hips and the ankles
\* pairwise at one visibility, the 25 landmarks no function reads visible.
PoseFrames ==
    { Frame(v, <<100, 100>>, 1, 1, sp[1], sp[2], sp[3]) :
        v \in {w \in VisibilityChoices :
                  w[11] = w[12] /\ w[23] = w[24] /\ w[27] = w[28]},
        sp \in SpanChoices }

Poses == {NoPose} \cup {Pose(Truncated(f, n)) : f \in PoseFrames, n \in LandmarkCounts}

Images == {NotAnImage} \cup {Image(r[1], r[2], p) : r \in Resolutions, p \in Poses}

Files == {[content_type |-> c, image |-> i] : c \in ContentTypes, i \in Images}

\* height_cm form values on both sides of the range 50..250.
RequestHeights == {10, 49, 50, 250, 251}

\* weight_kg form values: absent, or a weight.
Weights == {NULL, 70}

MeasureInit ==
    /\ landmarks = Unset
    /\ height_cm \in RequestHeights
    /\ pc = "validate_height"
    /\ calibration_result = Unset
    /\ body_measurements = Unset
    /\ garment_measurements = Unset
    /\ result = Unset
    /\ exc = "none"
    /\ weight_kg \in Weights
    /\ file \in Files
    /\ contents_read = FALSE
    /\ pose_processed = FALSE
    /\ measured = FALSE
    /\ response = Unset
    /\ CallerIdle
    /\ AppIdle
    /\ ClientIdle

\* raise HTTPException(...): the handler ends.
Reject(code, error_code) ==
    /\ response' = HTTPException(code, error_code)
    /\ pc' = "http_exception"

\* Validate height
ValidateHeight ==
    /\ pc = "validate_height"
    /\ IF ~height_valid(height_cm)
       THEN Reject(422, "INVALID_HEIGHT_VALUE")
       ELSE pc' = "validate_file_type" /\ UNCHANGED response
    /\ UNCHANGED <<landmarks, height_cm, calibration_result, body_measurements,
                   garment_measurements, result, exc>>
    /\ UNCHANGED <<weight_kg, file, contents_read, pose_processed, measured>>
    /\ UNCHANGED <<caller_vars, app_vars, client_vars>>

\* Validate file type
ValidateFileType ==
    /\ pc = "validate_file_type"
    /\ IF file.content_type \notin {"image/jpeg", "image/png"}
       THEN Reject(400, "INVALID_FILE_FORMAT")
       ELSE pc' = "read_image" /\ UNCHANGED response
    /\ UNCHANGED <<landmarks, height_cm, calibration_result, body_measurements,
                   garment_measurements, result, exc>>
    /\ UNCHANGED <<weight_kg, file, contents_read, pose_processed, measured>>
    /\ UNCHANGED <<caller_vars, app_vars, client_vars>>

\* 1. READ AND DECODE IMAGE, and the resolution check.
ReadAndDecodeImage ==
    /\ pc = "read_image"
    /\ contents_read' = TRUE
    /\ IF ~file.image.decodes
       THEN Reject(400, "INVALID_IMAGE")
       ELSE IF file.image.width < 640 \/ file.image.height < 480
       THEN Reject(400, "POOR_IMAGE_QUALITY")
       ELSE pc' = "pose_detection" /\ UNCHANGED response
    /\ UNCHANGED <<landmarks, height_cm, calibration_result, body_measurements,
                   garment_measurements, result, exc>>
    /\ UNCHANGED <<weight_kg, file, pose_processed, measured>>
    /\ UNCHANGED <<caller_vars, app_vars, client_vars>>

\* 2. RUN MEDIAPIPE POSE DETECTION
RunPoseDetection ==
    /\ pc = "pose_detection"
    /\ pose_processed' = TRUE
    /\ IF ~file.image.pose.detected
       THEN Reject(400, "NO_BODY_DETECTED")
       ELSE pc' = "extract_landmarks" /\ UNCHANGED response
    /\ UNCHANGED <<landmarks, height_cm, calibration_result, body_measurements,
                   garment_measurements, result, exc>>
    /\ UNCHANGED <<weight_kg, file, contents_read, measured>>
    /\ UNCHANGED <<caller_vars, app_vars, client_vars>>

\* 3. EXTRACT LANDMARKS
ExtractLandmarks ==
    /\ pc = "extract_landmarks"
    /\ landmarks' = file.image.pose.landmark
    /\ pc' = "calculate_measurements"
    /\ UNCHANGED <<height_cm, calibration_result, body_measurements,
                   garment_measurements, result, exc>>
    /\ UNCHANGED <<endpoint_vars, caller_vars, app_vars, client_vars>>

\* 4. CALCULATE MEASUREMENTS: an exception of the call is caught by
\* "except Exception".
CallCalculateMeasurements ==
    /\ pc = "calculate_measurements"
    /\ measured' = TRUE
    /\ LET r == calculate_measurements(landmarks, height_cm, weight_kg)
       IN  IF IsRaised(r)
           THEN /\ exc' = r.exception
                /\ pc' = "except"
                /\ UNCHANGED result
           ELSE /\ result' = r
                /\ pc' = "prepare_response"
                /\ UNCHANGED exc
    /\ UNCHANGED <<landmarks, height_cm, calibration_result, body_measurements,
                   garment_measurements>>
    /\ UNCHANGED <<weight_kg, file, contents_read, pose_processed, response>>
    /\ UNCHANGED <<caller_vars, app_vars, client_vars>>

\* 5. PREPARE RESPONSE
PrepareResponse ==
    /\ pc = "prepare_response"
    /\ LET base == [status_code |-> 200,
                    status |-> result.status,
                    message |-> result.message,
                    body_measurements |-> result.body_measurements,
                    garment_measurements |-> result.garment_measurements,
                    metadata |-> [image_width |-> file.image.width,
                                  image_height |-> file.image.height,
                                  detected_landmarks |-> len(landmarks),
                                  calibration_factor |-> result.calibration_factor]]
       IN  response' = IF "warnings" \in DOMAIN result
                       THEN [k \in DOMAIN base \cup {"warnings"} |->
                                IF k = "warnings" THEN result.warnings ELSE base[k]]
                       ELSE base
    /\ pc' = "returned"
    /\ UNCHANGED <<landmarks, height_cm, calibration_result, body_measurements,
                   garment_measurements, result, exc>>
    /\ UNCHANGED <<weight_kg, file, contents_read, pose_processed, measured>>
    /\ UNCHANGED <<caller_vars, app_vars, client_vars>>

\* except Exception: 500 INTERNAL_SERVER_ERROR
InternalServerError ==
    /\ pc = "except"
    /\ Reject(500, "INTERNAL_SERVER_ERROR")
    /\ UNCHANGED <<landmarks, height_cm, calibration_result, body_measurements,
                   garment_measurements, result, exc>>
    /\ UNCHANGED <<weight_kg, file, contents_read, pose_processed, measured>>
    /\ UNCHANGED <<caller_vars, app_vars, client_vars>>

MeasureNext ==
    \/ ValidateHeight
    \/ ValidateFileType
    \/ ReadAndDecodeImage
    \/ RunPoseDetection
    \/ ExtractLandmarks
    \/ CallCalculateMeasurements
    \/ PrepareResponse
    \/ InternalServerError

MeasureSpec == MeasureInit /\ [][MeasureNext]_vars

\* ------------------------------------- repeated calculate_measurements
\* One process may call calculate_measurements up to MaxInvocations times.
MaxInvocations == 3

\* Frames of the repeated calls: every read landmark visible or none, with
\* the right heel lower or the nose level with the lower heel.
CallerFrames ==
    { Frame([i \in ReadLandmarks |-> a], <<100, 100>>, 1, 1, sp[1], sp[2], sp[3]) :
        a \in {49, 100}, sp \in {<<0, 0, 300>>, <<100, 300, 0>>} }

\* Heights of the repeated calls.
CallerHeights == {50, 175}

CallerInit ==
    /\ EngineIdle
    /\ EndpointIdle
    /\ CallerIdle
    /\ AppIdle
    /\ ClientIdle

\* result = calculate_measurements(landmarks, height_cm, weight_kg) with any
\* arguments; the locals of an earlier call are gone.
Invoke ==
    /\ invocations < MaxInvocations
    /\ \E f \in CallerFrames, h \in CallerHeights, w \in Weights :
         LET r == calculate_measurements(f, h, w)
         IN  /\ landmarks' = f
             /\ height_cm' = h
             /\ weight_kg' = w
             /\ result' = IF IsRaised(r) THEN Unset ELSE r
             /\ exc' = IF IsRaised(r) THEN r.exception ELSE "none"
             /\ history' = history \cup
                    {[landmarks |-> f, height_cm |-> h, weight_kg |-> w, outcome |-> r]}
    /\ invocations' = invocations + 1
    /\ UNCHANGED <<pc, calibration_result, body_measurements, garment_measurements>>
    /\ UNCHANGED <<file, contents_read, pose_processed, measured, response>>
    /\ UNCHANGED <<app_vars, client_vars>>

CallerNext == Invoke

CallerSpec == CallerInit /\ [][CallerNext]_vars

\* ---------------------------------------------------------- the mobile app
\* The app is launched at most MaxLaunches times.
MaxLaunches == 3

\* utils/storage.ts: value === "true" of the key "hasCompletedWelcome".
hasCompletedWelcome(storage) == storage.hasCompletedWelcome = "true"

\* Mutant: AsyncStorage.setItem is never called, the flag stays as it was.
setWelcomeCompleted_not_stored(storage) == storage

\* AsyncStorage.setItem(WELCOME_COMPLETED_KEY, "true")
setWelcomeCompleted(storage) == [storage EXCEPT !.hasCompletedWelcome = "true"]

\* What AsyncStorage holds when the app is first launched: nothing, or the
\* flag of a welcome flow completed before.
StoredAtInstall ==
    { [hasCompletedWelcome |-> w, userProfile |-> null, measurements |-> null] :
        w \in {null, "true"} }

PhotoUris == {"file:///photo-1.jpg", "file:///photo-2.jpg"}

AppInit ==
    /\ EngineIdle
    /\ EndpointIdle
    /\ CallerIdle
    /\ ClientIdle
    /\ asyncStorage \in StoredAtInstall
    /\ app = "closed"
    /\ isLoading = TRUE
    /\ initialRoute = null
    /\ segments = "index"
    /\ selectedImage = null
    /\ isUploading = FALSE
    /\ upload_pc = "idle"
    /\ alert = null
    /\ launches = 0

\* The user opens the app: RootLayout mounts with its initial state.
Launch ==
    /\ app = "closed"
    /\ launches < MaxLaunches
    /\ app' = "running"
    /\ launches' = launches + 1
    /\ isLoading' = TRUE
    /\ initialRoute' = null
    /\ segments' = "index"
    /\ selectedImage' = null
    /\ isUploading' = FALSE
    /\ upload_pc' = "idle"
    /\ alert' = null
    /\ UNCHANGED asyncStorage
    /\ UNCHANGED <<engine_vars, endpoint_vars, caller_vars, client_vars>>

\* The user closes the app; AsyncStorage persists.
Close ==
    /\ app = "running"
    /\ app' = "closed"
    /\ UNCHANGED <<asyncStorage, isLoading, initialRoute, segments, selectedImage,
                   isUploading, upload_pc, alert, launches>>
    /\ UNCHANGED <<engine_vars, endpoint_vars, caller_vars, client_vars>>

\* checkOnboardingStatus, run by the mount effect.  The reads of the welcome
\* flag and of the user profile are commented out ("TESTING MODE: Always
\* start from welcome page"): setInitialRoute("/welcome"), then
\* setIsLoading(false) in the finally block.
checkOnboardingStatus ==
    /\ app = "running"
    /\ isLoading
    /\ initialRoute' = "/welcome"
    /\ isLoading' = FALSE
    /\ UNCHANGED <<asyncStorage, app, segments, selectedImage, isUploading, upload_pc,
                   alert, launches>>
    /\ UNCHANGED <<engine_vars, endpoint_vars, caller_vars, client_vars>>

\* The route router.replace(route) shows.
RouteOf(route) ==
    CASE route = "/welcome" -> "welcome"
      [] route = "/onboarding" -> "onboarding"
      [] route = "/garment-editor" -> "garment-editor"
      [] OTHER -> "index"

\* expo-router: the href router.replace(pathname) navigates to; it carries no
\* parameters.
Href(pathname) == [pathname |-> pathname, params |-> << >>]

\* router.replace({ pathname, params: { [name]: value } })
HrefWith(pathname, name, value) ==
    [pathname |-> pathname, params |-> [n \in {name} |-> value]]

\* useLocalSearchParams()[name] of the screen an href opened: undefined (here
\* null) when the href has no such parameter.
LocalSearchParam(href, name) ==
    IF name \in DOMAIN href.params THEN href.params[name] ELSE null

\* The effect on [isLoading, initialRoute, segments]: redirect on the initial
\* load only.
RedirectEffect ==
    /\ app = "running"
    /\ ~isLoading
    /\ initialRoute # null
    /\ segments = "index"
    /\ initialRoute # "index"
    /\ segments' = RouteOf(initialRoute)
    /\ UNCHANGED <<asyncStorage, app, isLoading, initialRoute, selectedImage,
                   isUploading, upload_pc, alert, launches>>
    /\ UNCHANGED <<engine_vars, endpoint_vars, caller_vars, client_vars>>

\* handleTakePhoto / handleChooseFromGallery: without the permission an alert
\* and nothing else; with it the picker is cancelled, returns a photo, or
\* throws.
HandlePickPhoto ==
    /\ app = "running"
    /\ segments = "welcome"
    /\ selectedImage = null
    /\ \E source \in {"Camera", "Photo Library"},
          outcome \in {"denied", "canceled", "threw"} \cup PhotoUris :
         CASE outcome = "denied" ->
                 /\ alert' = source \o " Permission Required"
                 /\ UNCHANGED selectedImage
           [] outcome = "canceled" ->
                 UNCHANGED <<alert, selectedImage>>
           [] outcome = "threw" ->
                 /\ alert' = "Error"
                 /\ UNCHANGED selectedImage
           [] OTHER ->
                 /\ selectedImage' = outcome
                 /\ UNCHANGED alert
    /\ UNCHANGED <<asyncStorage, app, isLoading, initialRoute, segments, isUploading,
                   upload_pc, launches>>
    /\ UNCHANGED <<engine_vars, endpoint_vars, caller_vars, client_vars>>

\* handleRetake ("Choose Different Photo", disabled while uploading).
HandleRetake ==
    /\ app = "running"
    /\ segments = "welcome"
    /\ selectedImage # null
    /\ ~isUploading
    /\ selectedImage' = null
    /\ UNCHANGED <<asyncStorage, app, isLoading, initialRoute, segments, isUploading,
                   upload_pc, alert, launches>>
    /\ UNCHANGED <<engine_vars, endpoint_vars, caller_vars, client_vars>>

\* services/api.ts uploadProfilePhoto: success iff a URI is given.
uploadProfilePhoto(photoUri) ==
    IF photoUri = null \/ photoUri = ""
    THEN [success |-> FALSE, message |-> "No photo URI provided"]
    ELSE [success |-> TRUE, photoUrl |-> photoUri]

\* handleUploadPhoto up to its first await ("Continue", disabled while
\* uploading).
HandleUploadPhoto ==
    /\ app = "running"
    /\ segments = "welcome"
    /\ selectedImage # null
    /\ ~isUploading
    /\ upload_pc = "idle"
    /\ isUploading' = TRUE
    /\ upload_pc' = "uploadProfilePhoto"
    /\ UNCHANGED <<asyncStorage, app, isLoading, initialRoute, segments, selectedImage,
                   alert, launches>>
    /\ UNCHANGED <<engine_vars, endpoint_vars, caller_vars, client_vars>>

\* await uploadProfilePhoto(selectedImage) resolves: on success the handler
\* goes on to setWelcomeCompleted, otherwise it alerts and ends.
UploadResolves ==
    /\ app = "running"
    /\ upload_pc = "uploadProfilePhoto"
    /\ IF uploadProfilePhoto(selectedImage).success
       THEN /\ upload_pc' = "setWelcomeCompleted"
            /\ UNCHANGED <<isUploading, alert>>
       ELSE /\ alert' = "Upload Failed"
            /\ isUploading' = FALSE
            /\ upload_pc' = "idle"
    /\ UNCHANGED <<asyncStorage, app, isLoading, initialRoute, segments, selectedImage,
                   launches>>
    /\ UNCHANGED <<engine_vars, endpoint_vars, caller_vars, client_vars>>

\* await setWelcomeCompleted() settles: stored, then router.replace to the
\* onboarding; or AsyncStorage throws, and the catch block alerts.  The
\* finally block resets isUploading.
WelcomeCompletedSettles ==
    /\ app = "running"
    /\ upload_pc = "setWelcomeCompleted"
    /\ \/ /\ asyncStorage' = setWelcomeCompleted(asyncStorage)
          /\ segments' = RouteOf(Href("/onboarding").pathname)
          /\ params_photoUri' = LocalSearchParam(Href("/onboarding"), "photoUri")
          /\ UNCHANGED alert
       \/ /\ alert' = "Error"
          /\ UNCHANGED <<asyncStorage, segments, params_photoUri>>
    /\ isUploading' = FALSE
    /\ upload_pc' = "idle"
    /\ UNCHANGED <<app, isLoading, initialRoute, selectedImage, launches>>
    /\ UNCHANGED <<form_height, form_weight, isSubmitting, analysisProgress,
                   submissions, alertResult>>
    /\ UNCHANGED <<engine_vars, endpoint_vars, caller_vars, editor_vars, analysis_vars>>

AppNext ==
    \/ Launch
    \/ Close
    \/ checkOnboardingStatus
    \/ RedirectEffect
    \/ HandlePickPhoto
    \/ HandleRetake
    \/ HandleUploadPhoto
    \/ UploadResolves
    \/ WelcomeCompletedSettles

AppSpec == AppInit /\ [][AppNext]_vars

\* ------------------------------------------------- analyzeMeasurements
\* JSON.stringify(value): the value written out as a string.
JSON_stringify(value) == ToString(value)

\* A text that is not JSON.
NotJSON == "<html>"

\* JSON.parse(text) / response.json(), values being the values whose text may
\* be met: the value the text was written from, or a SyntaxError.
JSON_parse(text, values) ==
    IF \E v \in values : JSON_stringify(v) = text
    THEN CHOOSE v \in values : JSON_stringify(v) = text
    ELSE Raised("SyntaxError")

\* Frames the backend may have found in the photo: every landmark visible,
\* the ankles hidden, nothing visible.
ServedFrames ==
    { Frame([i \in ReadLandmarks |-> IF i \in visible THEN 100 ELSE 0],
            <<100, 100>>, 1, 1, 100, 300, 0) :
        visible \in {ReadLandmarks, {11, 12, 15, 16, 23, 24}, {}} }

\* The bodies of the 200 responses of POST /measure for a height of 175 cm.
OkBodies == {calculate_measurements(f, 175, NULL) : f \in ServedFrames}

\* The body FastAPI sends for an HTTPException.
ErrorBodies ==
    {[detail |-> [status |-> "error", error_code |-> "NO_BODY_DETECTED",
                  message |-> "Could not detect body in photo"]]}

\* new Error(message)
Error(message) == [exception |-> "Error", message |-> message]

\* error instanceof Error
InstanceOfError(error) == "message" \in DOMAIN error

\* object[name], undefined (here null) when the object has no such property.
Property(object, name) == IF name \in DOMAIN object THEN object[name] ELSE null

\* !photoUri
EmptyUri(uri) == uri = null \/ uri = ""

\* !heightCm || heightCm < 50 || heightCm > 250, heightCm in hundredths of a
\* centimetre, NULL being undefined or NaN.
InvalidHeight(heightCm) ==
    heightCm = NULL \/ heightCm = 0 \/ heightCm < 5000 \/ heightCm > 25000

\* The form data of the POST: weight_kg is appended only if (weightKg).
FormData(uri, heightCm, weightKg) ==
    [url |-> "/measure",
     file |-> uri,
     height_cm |-> heightCm,
     weight_kg |-> IF Truthy(weightKg) THEN weightKg ELSE NULL]

\* The progress messages, in the order of the four onProgress calls.
ProgressMessages ==
    <<"Preparing photo...", "Uploading photo...", "Processing image...",
      "Measurements received!">>

\* Where the try block stands: the messages passed to onProgress so far, the
\* requests issued so far, and how it goes on.
Threw(n, requests, error) ==
    [threw |-> TRUE, pending |-> FALSE, progress |-> SubSeq(ProgressMessages, 1, n),
     requests |-> requests, error |-> error]

Awaiting(n, requests) ==
    [threw |-> FALSE, pending |-> TRUE, progress |-> SubSeq(ProgressMessages, 1, n),
     requests |-> requests]

Return(n, requests, value) ==
    [threw |-> FALSE, pending |-> FALSE, progress |-> SubSeq(ProgressMessages, 1, n),
     requests |-> requests, value |-> value]

\* What onProgress throws when it throws: not an Error.
Thrown == [exception |-> "thrown by onProgress"]

\* The statements of the try block of analyzeMeasurements, request being the
\* form data it posts and data what response.json() gives.  env.onProgress is
\* the number of the onProgress call that throws (0: none does); env.fetch is
\* what fetch does: it is still pending, it rejects, or it resolves with a
\* response.
try_block(uri, heightCm, env, request, data) ==
    IF env.onProgress = 1 THEN Threw(0, << >>, Thrown)
    ELSE IF EmptyUri(uri) THEN Threw(1, << >>, Error("Photo URI is required"))
    ELSE IF InvalidHeight(heightCm) THEN Threw(1, << >>, Error("Invalid height value"))
    ELSE IF env.onProgress = 2 THEN Threw(1, << >>, Thrown)
    ELSE IF env.fetch.outcome = "pending" THEN Awaiting(2, <<request>>)
    ELSE IF env.fetch.outcome = "rejects"
         THEN Threw(2, <<request>>, Error("Network request failed"))
    ELSE IF env.onProgress = 3 THEN Threw(2, <<request>>, Thrown)
    ELSE IF IsRaised(data) THEN Threw(3, <<request>>, Error("JSON Parse error"))
    ELSE IF ~env.fetch.ok
         THEN Return(3, <<request>>,
                     [status |-> "error",
                      message |-> IF Property(data, "message") \notin {null, ""}
                                  THEN data.message
                                  ELSE "Failed to analyze photo",
                      error_code |-> Property(data, "error_code"),
                      suggestions |-> Property(data, "suggestions")])
    ELSE IF env.onProgress = 4 THEN Threw(3, <<request>>, Thrown)
    ELSE Return(4, <<request>>, data)

\* The try block of analyzeMeasurements for the arguments of a call.
analyzeMeasurements_try(uri, heightCm, weightKg, env) ==
    try_block(uri, heightCm, env, FormData(uri, heightCm, weightKg),
              IF env.fetch.outcome = "response"
              THEN JSON_parse(env.fetch.body, OkBodies \cup ErrorBodies)
              ELSE Unset)

\* The promise of an async function whose body ended as try did, nothing
\* catching what it threw.
rejecting(try) ==
    IF try.pending
    THEN [settled |-> "pending", progress |-> try.progress, requests |-> try.requests]
    ELSE IF try.threw
    THEN [settled |-> "rejected", progress |-> try.progress,
          requests |-> try.requests, error |-> try.error]
    ELSE [settled |-> "resolved", progress |-> try.progress,
          requests |-> try.requests, value |-> try.value]

\* The same with a catch block that returns a fixed error response.
catching_plainly(try) ==
    IF try.pending
    THEN [settled |-> "pending", progress |-> try.progress, requests |-> try.requests]
    ELSE IF try.threw
    THEN [settled |-> "resolved", progress |-> try.progress,
          requests |-> try.requests,
          value |-> [status |-> "error", message |-> "Failed to connect",
                     error_code |-> "NETWORK_ERROR"]]
    ELSE [settled |-> "resolved", progress |-> try.progress,
          requests |-> try.requests, value |-> try.value]

\* The catch block of analyzeMeasurements after the try block ended as try
\* did: whatever was thrown becomes an error response.
catch(try) ==
    IF try.pending
    THEN [settled |-> "pending", progress |-> try.progress, requests |-> try.requests]
    ELSE IF try.threw
    THEN [settled |-> "resolved", progress |-> try.progress,
          requests |-> try.requests,
          value |-> [status |-> "error",
                     message |-> IF InstanceOfError(try.error)
                                 THEN try.error.message
                                 ELSE "Failed to connect to backend server",
                     error_code |-> "NETWORK_ERROR",
                     suggestions |-> <<"Check your internet connection",
                                       "Ensure backend server is running",
                                       "Verify API URL is correct">>]]
    ELSE [settled |-> "resolved", progress |-> try.progress,
          requests |-> try.requests, value |-> try.value]

\* Mutant: no catch block, what the try block throws rejects the promise.
analyzeMeasurements_without_catch(uri, heightCm, weightKg, env) ==
    rejecting(analyzeMeasurements_try(uri, heightCm, weightKg, env))

\* Mutant: the body of a non-OK response is returned as it is.
analyzeMeasurements_trusting_body(uri, heightCm, weightKg, env) ==
    catching_plainly(
        analyzeMeasurements_try(uri, heightCm, weightKg,
                                [env EXCEPT !.fetch =
                                    IF env.fetch.outcome = "response"
                                    THEN [env.fetch EXCEPT !.ok = TRUE]
                                    ELSE env.fetch]))

\* analyzeMeasurements: the try block, and the catch block that turns
\* whatever was thrown into an error response.
analyzeMeasurements(uri, heightCm, weightKg, env) ==
    catch(analyzeMeasurements_try(uri, heightCm, weightKg, env))

\* What fetch may do once the request is sent.
FetchOutcomes ==
    {[outcome |-> "rejects"]}
    \cup {[outcome |-> "response", ok |-> TRUE, body |-> JSON_stringify(b)] :
             b \in OkBodies}
    \cup {[outcome |-> "response", ok |-> FALSE, body |-> JSON_stringify(b)] :
             b \in ErrorBodies \cup OkBodies}
    \cup {[outcome |-> "response", ok |-> o, body |-> NotJSON] : o \in BOOLEAN}

Environments == [onProgress : 0..4, fetch : FetchOutcomes]

\* Arguments of the checked calls: heights in hundredths of a centimetre,
\* weights in millionths of a kilogram.
CallUris == {"", "file:///photo-1.jpg"}

CallHeights == {NULL, 0, 4999, 5000, 17500, 25000, 25001}

CallWeights == {NULL, 0, 70000000}

AnalyzeInit ==
    /\ EngineIdle
    /\ EndpointIdle
    /\ CallerIdle
    /\ AppIdle
    /\ OnboardingIdle
    /\ EditorIdle
    /\ call \in [photoUri : CallUris, heightCm : CallHeights, weightKg : CallWeights,
                 env : Environments]
    /\ settled = Unset

\* await analyzeMeasurements(photoUri, heightCm, weightKg, onProgress)
AnalyzeMeasurements ==
    /\ call # Unset
    /\ settled = Unset
    /\ settled' = analyzeMeasurements(call.photoUri, call.heightCm, call.weightKg,
                                      call.env)
    /\ UNCHANGED call
    /\ UNCHANGED <<engine_vars, endpoint_vars, caller_vars, app_vars, onboarding_vars,
                   editor_vars>>

AnalyzeNext == AnalyzeMeasurements

AnalyzeSpec == AnalyzeInit /\ [][AnalyzeNext]_vars

\* ------------------------------------------------------ the onboarding page
\* handleContinue passes its guard at most MaxSubmissions times.
MaxSubmissions == 2

\* The value of the height TextInput, with what the patterns of
\* parseHeightToCm find in it: feet and inches, or a number (NULL: no match).
HeightText(text, feet, inches, number) ==
    [text |-> text, feet |-> feet, inches |-> inches, number |-> number]

\* The value of the weight TextInput, with the number parseFloat reads in its
\* digits (NULL: NaN) and whether it contains "lb".
WeightText(text, number, lb) == [text |-> text, number |-> number, lb |-> lb]

\* What the user may type.
HeightTexts ==
    {HeightText(" ", NULL, NULL, NULL), HeightText("5'10", 5, 10, NULL),
     HeightText("300", NULL, NULL, 300)}

WeightTexts ==
    {WeightText(" ", NULL, FALSE), WeightText("70", 70, FALSE),
     WeightText("154 lbs", 154, TRUE)}

\* The photoUri parameter the page may be opened with.
PhotoUriParams == {null, "file:///photo-1.jpg"}

\* text.trim(): of the texts above only " " has outer white space.
trim(t) == IF t.text = " " THEN [t EXCEPT !.text = ""] ELSE t

\* height.trim().length > 0 && weight.trim().length > 0
isFormValid(h, w) == trim(h).text # "" /\ trim(w).text # ""

\* parseHeightToCm, in hundredths of a centimetre.
parseHeightToCm(t) ==
    IF t.feet # NULL THEN (t.feet * 12 + t.inches) * 254
    ELSE IF t.number # NULL
         THEN IF t.number > 100 THEN t.number * 100 ELSE t.number * 254
    ELSE 17000

\* parseWeightToKg, in millionths of a kilogram.
parseWeightToKg(t) ==
    IF t.number # NULL /\ (t.lb \/ t.number > 100) THEN t.number * 453592
    ELSE IF Truthy(t.number) THEN t.number * 1000000
    ELSE 70000000

\* utils/storage.ts saveUserProfile, when AsyncStorage.setItem succeeds.
saveUserProfile(storage, h, w) ==
    [storage EXCEPT !.userProfile = JSON_stringify([height |-> h.text,
                                                    weight |-> w.text])]

\* Mutant: the guard tests the form only.
handleContinue_returns_ignoring_isSubmitting(h, w, submitting) == ~isFormValid(h, w)

\* if (!isFormValid || isSubmitting) return;
handleContinue_returns(h, w, submitting) == ~isFormValid(h, w) \/ submitting

\* Mutant: the finally block resets isSubmitting only.
finally_keeps_progress ==
    /\ isSubmitting' = FALSE
    /\ UNCHANGED analysisProgress

\* finally { setIsSubmitting(false); setAnalysisProgress(""); }
finally ==
    /\ isSubmitting' = FALSE
    /\ analysisProgress' = ""

\* The onboarding page as the welcome flow of a first install leaves it:
\* mounted with an empty form, with or without a photoUri parameter.
OnboardingInit ==
    /\ EngineIdle
    /\ EndpointIdle
    /\ CallerIdle
    /\ EditorIdle
    /\ AnalysisIdle
    /\ asyncStorage = [hasCompletedWelcome |-> "true", userProfile |-> null,
                       measurements |-> null]
    /\ app = "running"
    /\ isLoading = FALSE
    /\ initialRoute = "/welcome"
    /\ segments = "onboarding"
    /\ selectedImage = null
    /\ isUploading = FALSE
    /\ upload_pc = "idle"
    /\ alert = null
    /\ launches = 1
    /\ params_photoUri \in PhotoUriParams
    /\ form_height = HeightText("", NULL, NULL, NULL)
    /\ form_weight = WeightText("", NULL, FALSE)
    /\ isSubmitting = FALSE
    /\ analysisProgress = ""
    /\ submissions = << >>
    /\ alertResult = Unset

\* onChangeText of the height input.
SetHeight ==
    /\ segments = "onboarding"
    /\ alert = null
    /\ \E t \in HeightTexts : form_height' = t
    /\ UNCHANGED <<params_photoUri, form_weight, isSubmitting, analysisProgress,
                   submissions, alertResult>>
    /\ UNCHANGED <<engine_vars, endpoint_vars, caller_vars, app_vars, editor_vars,
                   analysis_vars>>

\* onChangeText of the weight input.
SetWeight ==
    /\ segments = "onboarding"
    /\ alert = null
    /\ \E t \in WeightTexts : form_weight' = t
    /\ UNCHANGED <<params_photoUri, form_height, isSubmitting, analysisProgress,
                   submissions, alertResult>>
    /\ UNCHANGED <<engine_vars, endpoint_vars, caller_vars, app_vars, editor_vars,
                   analysis_vars>>

\* handleContinue up to its first await: past the guard it sets isSubmitting
\* and calls saveUserProfile with the trimmed texts.  An open alert is modal:
\* the button is not pressed under it.
HandleContinue ==
    /\ segments = "onboarding"
    /\ alert = null
    /\ Len(submissions) < MaxSubmissions
    /\ ~handleContinue_returns(form_height, form_weight, isSubmitting)
    /\ isSubmitting' = TRUE
    /\ submissions' = Append(submissions,
                             [pc |-> "saveUserProfile",
                              height |-> trim(form_height),
                              weight |-> trim(form_weight),
                              calls |-> <<"saveUserProfile">>,
                              saved |-> "pending",
                              result |-> Unset])
    /\ UNCHANGED <<params_photoUri, form_height, form_weight, analysisProgress,
                   alertResult>>
    /\ UNCHANGED <<engine_vars, endpoint_vars, caller_vars, app_vars, editor_vars,
                   analysis_vars>>

\* The progress text once analyzeMeasurements has run as far as started:
\* "Analyzing photo..." set by the handler, then the last message passed to
\* the onProgress callback setAnalysisProgress.
Progress(started) ==
    IF started.progress = << >> THEN "Analyzing photo..."
    ELSE started.progress[Len(started.progress)]

\* await saveUserProfile settles for submission i.  Stored: with a photo the
\* handler sets the progress text and calls analyzeMeasurements, which runs
\* up to its own first await; without one it navigates and ends.  Thrown: the
\* catch block alerts and the handler ends.
SaveUserProfileSettles(i) ==
    /\ submissions[i].pc = "saveUserProfile"
    /\ \/ /\ asyncStorage' = saveUserProfile(asyncStorage, submissions[i].height,
                                             submissions[i].weight)
          /\ IF ~EmptyUri(params_photoUri)
             THEN /\ analysisProgress' =
                         Progress(analyzeMeasurements(
                                      params_photoUri,
                                      parseHeightToCm(submissions[i].height),
                                      parseWeightToKg(submissions[i].weight),
                                      [onProgress |-> 0,
                                       fetch |-> [outcome |-> "pending"]]))
                  /\ submissions' =
                         [submissions EXCEPT
                             ![i].pc = "analyzeMeasurements",
                             ![i].saved = "stored",
                             ![i].calls = Append(@, "analyzeMeasurements")]
                  /\ UNCHANGED <<isSubmitting, segments, backendMeasurements>>
             ELSE /\ segments' = RouteOf(Href("/garment-editor").pathname)
                  /\ backendMeasurements' =
                         LocalSearchParam(Href("/garment-editor"), "measurements")
                  /\ submissions' = [submissions EXCEPT ![i].pc = "done",
                                                        ![i].saved = "stored"]
                  /\ finally
          /\ UNCHANGED alert
       \/ /\ alert' = "Error"
          /\ submissions' = [submissions EXCEPT ![i].pc = "done",
                                                ![i].saved = "threw"]
          /\ finally
          /\ UNCHANGED <<asyncStorage, segments, backendMeasurements>>
    /\ UNCHANGED <<params_photoUri, form_height, form_weight, alertResult>>
    /\ UNCHANGED <<app, isLoading, initialRoute, selectedImage, isUploading, upload_pc,
                   launches>>
    /\ UNCHANGED <<measurements, hasAppliedBackendMeasurements, saveTimeout, effects,
                   storageQueue, edits>>
    /\ UNCHANGED <<engine_vars, endpoint_vars, caller_vars, analysis_vars>>

\* What handleContinue does for submission i with the promise analysis of
\* analyzeMeasurements, up to its finally block.
AfterAnalysis(i, analysis) ==
    LET href == HrefWith("/garment-editor", "measurements",
                         JSON_stringify(Property(analysis.value,
                                                 "garment_measurements")))
    IN  IF analysis.settled = "rejected"
        THEN /\ alert' = "Error"
             /\ submissions' = [submissions EXCEPT ![i].pc = "done"]
             /\ UNCHANGED <<alertResult, segments, backendMeasurements>>
        ELSE /\ submissions' = [submissions EXCEPT ![i].pc = "done",
                                                   ![i].result = analysis.value]
             /\ IF Property(analysis.value, "status") = "error"
                THEN /\ alert' = "Measurement Analysis Failed"
                     /\ alertResult' = analysis.value
                     /\ UNCHANGED <<segments, backendMeasurements>>
                ELSE IF Property(analysis.value, "status") = "partial_success"
                THEN /\ alert' = "Partial Measurements"
                     /\ alertResult' = analysis.value
                     /\ UNCHANGED <<segments, backendMeasurements>>
                ELSE /\ segments' = RouteOf(href.pathname)
                     /\ backendMeasurements' = LocalSearchParam(href, "measurements")
                     /\ UNCHANGED <<alert, alertResult>>

\* await analyzeMeasurements settles for submission i, the network having
\* done any of the things it may do: the handler shows the alert of an error
\* or of a partial result and returns, or navigates with the measurements; a
\* rejection goes to the catch block.  The finally block ends every path.
AnalysisSettles(i) ==
    /\ submissions[i].pc = "analyzeMeasurements"
    /\ \E f \in FetchOutcomes :
         AfterAnalysis(i, analyzeMeasurements(params_photoUri,
                                              parseHeightToCm(submissions[i].height),
                                              parseWeightToKg(submissions[i].weight),
                                              [onProgress |-> 0, fetch |-> f]))
    /\ finally
    /\ UNCHANGED <<params_photoUri, form_height, form_weight>>
    /\ UNCHANGED <<asyncStorage, app, isLoading, initialRoute, selectedImage,
                   isUploading, upload_pc, launches>>
    /\ UNCHANGED <<measurements, hasAppliedBackendMeasurements, saveTimeout, effects,
                   storageQueue, edits>>
    /\ UNCHANGED <<engine_vars, endpoint_vars, caller_vars, analysis_vars>>

\* The user presses a button of the open alert: "Continue Anyway" or "Retake
\* Photo" of the failed analysis, "Continue" of the partial measurements, or
\* the OK of the bare error alert.
AlertPress ==
    /\ segments = "onboarding"
    /\ alert # null
    /\ CASE alert = "Measurement Analysis Failed" ->
               \E text \in {"Continue Anyway", "Retake Photo"} :
                   LET href == IF text = "Continue Anyway"
                               THEN Href("/garment-editor") ELSE Href("/welcome")
                   IN  /\ segments' = RouteOf(href.pathname)
                       /\ backendMeasurements' = LocalSearchParam(href, "measurements")
          [] alert = "Partial Measurements" ->
               LET href == HrefWith("/garment-editor", "measurements",
                                    JSON_stringify(alertResult.garment_measurements))
               IN  /\ segments' = RouteOf(href.pathname)
                   /\ backendMeasurements' = LocalSearchParam(href, "measurements")
          [] OTHER ->
               UNCHANGED <<segments, backendMeasurements>>
    /\ alert' = null
    /\ alertResult' = Unset
    /\ UNCHANGED <<params_photoUri, form_height, form_weight, isSubmitting,
                   analysisProgress, submissions>>
    /\ UNCHANGED <<asyncStorage, app, isLoading, initialRoute, selectedImage,
                   isUploading, upload_pc, launches>>
    /\ UNCHANGED <<measurements, hasAppliedBackendMeasurements, saveTimeout, effects,
                   storageQueue, edits>>
    /\ UNCHANGED <<engine_vars, endpoint_vars, caller_vars, analysis_vars>>

OnboardingNext ==
    \/ SetHeight
    \/ SetWeight
    \/ HandleContinue
    \/ \E i \in 1..MaxSubmissions :
         /\ i \in DOMAIN submissions
         /\ \/ SaveUserProfileSettles(i)
            \/ AnalysisSettles(i)
    \/ AlertPress

OnboardingSpec == OnboardingInit /\ [][OnboardingNext]_vars

\* The awaited promises settle: AsyncStorage answers, and fetch resolves or
\* rejects.
OnboardingFairSpec ==
    /\ OnboardingSpec
    /\ \A i \in 1..MaxSubmissions :
         /\ WF_vars(i \in DOMAIN submissions /\ SaveUserProfileSettles(i))
         /\ WF_vars(i \in DOMAIN submissions /\ AnalysisSettles(i))

\* ------------------------------------------------------ the garment editor
\* handleMeasurementChange is called at most MaxEdits times.
MaxEdits == 2

GarmentTypes == {"shirt", "pants", "jacket"}

\* The keys of the measurements of a garment type.
KeysOf(g) == IF g = "pants" THEN {"waist", "inseam", "rise", "leg"}
             ELSE {"shoulder", "chest", "sleeves", "length"}

\* utils/storage.ts DEFAULT_MEASUREMENTS
DEFAULT_MEASUREMENTS ==
    [shirt |-> [shoulder |-> "18", chest |-> "40", sleeves |-> "25", length |-> "29"],
     pants |-> [waist |-> "32", inseam |-> "32", rise |-> "11", leg |-> "8"],
     jacket |-> [shoulder |-> "18.5", chest |-> "42", sleeves |-> "26",
                 length |-> "30"]]

\* value.toFixed(1), value in hundredths: one decimal, a tie rounded up.
toFixed1(value) ==
    LET tenths == (value + 5) \div 10
    IN  ToString(tenths \div 10) \o "." \o ToString(tenths % 10)

\* formatValue of applyBackendMeasurements: "" for null or undefined.
formatValue(value) == IF value = NULL THEN "" ELSE toFixed1(value)

\* applyBackendMeasurements(garmentMeasurements)
applyBackendMeasurements(garmentMeasurements) ==
    [g \in GarmentTypes |->
        [k \in KeysOf(g) |->
            IF g \in DOMAIN garmentMeasurements /\ k \in DOMAIN garmentMeasurements[g]
            THEN formatValue(garmentMeasurements[g][k].value)
            ELSE ""]]

\* The object literal "merged" of initializeMeasurements: the defaults, over
\* them what was saved (Unset: nothing), over that every non-empty applied
\* value.
MergedMeasurements(saved, applied) ==
    [g \in GarmentTypes |->
        [k \in KeysOf(g) |->
            IF applied[g][k] # "" THEN applied[g][k]
            ELSE IF saved # Unset THEN saved[g][k]
            ELSE DEFAULT_MEASUREMENTS[g][k]]]

\* newMeasurements of handleMeasurementChange(key, value), g being the
\* selected garment.
ChangedMeasurements(prev, g, key, value) ==
    [prev EXCEPT ![g] = [prev[g] EXCEPT ![key] = value]]

\* The edits the user may make: <<selected garment, key, value>>.
EditChoices == {<<"shirt", "shoulder", "17.5">>, <<"pants", "waist", "30">>}

\* The garment measurements of the responses the onboarding navigates with.
BackendGarmentMeasurements ==
    {b.garment_measurements : b \in {o \in OkBodies : o.status # "error"}}

\* The measurements parameter the editor may be opened with.
MeasurementsParams ==
    {null, NotJSON} \cup {JSON_stringify(gm) : gm \in BackendGarmentMeasurements}

\* The measurements an earlier session may have saved: a shirt shoulder of 17.
SavedMeasurements ==
    {ChangedMeasurements(DEFAULT_MEASUREMENTS, "shirt", "shoulder", "17")}

RECURSIVE AfterEdits(_, _)
\* The measurements n edits lead to from those of the set ms.
AfterEdits(ms, n) ==
    IF n = 0 THEN ms
    ELSE AfterEdits(ms \cup {ChangedMeasurements(m, e[1], e[2], e[3]) :
                                m \in ms, e \in EditChoices}, n - 1)

\* Every MeasurementData the editor may display or store.
MeasurementDataValues ==
    AfterEdits({DEFAULT_MEASUREMENTS} \cup SavedMeasurements
               \cup {MergedMeasurements(sv, applyBackendMeasurements(gm)) :
                        sv \in SavedMeasurements \cup {Unset},
                        gm \in BackendGarmentMeasurements},
               MaxEdits)

\* utils/storage.ts getMeasurements: the parsed item, or null (here Unset)
\* when there is none or it does not parse.
getMeasurements(storage) ==
    LET data == IF storage.measurements \in {null, ""} THEN Unset
                ELSE JSON_parse(storage.measurements, MeasurementDataValues)
    IN  IF IsRaised(data) THEN Unset ELSE data

\* A run of initializeMeasurements that has called getMeasurements; its
\* closure holds the hasAppliedBackendMeasurements of the render it belongs to.
EffectRun(applied, n) ==
    [pc |-> "getMeasurements", hasAppliedBackendMeasurements |-> applied,
     saved |-> Unset, editsAtStart |-> n]

\* The editor just mounted: the defaults are displayed and the effect has
\* called getMeasurements.
EditorInit ==
    /\ EngineIdle
    /\ EndpointIdle
    /\ CallerIdle
    /\ OnboardingIdle
    /\ AnalysisIdle
    /\ asyncStorage \in
           {[hasCompletedWelcome |-> "true",
             userProfile |-> JSON_stringify([height |-> "5'10", weight |-> "70"]),
             measurements |-> sv] :
               sv \in {null} \cup {JSON_stringify(ms) : ms \in SavedMeasurements}}
    /\ app = "running"
    /\ isLoading = FALSE
    /\ initialRoute = "/welcome"
    /\ segments = "garment-editor"
    /\ selectedImage = null
    /\ isUploading = FALSE
    /\ upload_pc = "idle"
    /\ alert = null
    /\ launches = 1
    /\ backendMeasurements \in MeasurementsParams
    /\ measurements = DEFAULT_MEASUREMENTS
    /\ hasAppliedBackendMeasurements = FALSE
    /\ saveTimeout = Unset
    /\ effects = <<EffectRun(FALSE, 0)>>
    /\ storageQueue = <<[op |-> "getItem", run |-> 1]>>
    /\ edits = 0

\* AsyncStorage completes the oldest operation issued, a setItem of
\* saveMeasurements: the item is stored.
SetItemCompletes ==
    /\ storageQueue # << >>
    /\ Head(storageQueue).op = "setItem"
    /\ asyncStorage' = [asyncStorage EXCEPT !.measurements = Head(storageQueue).value]
    /\ storageQueue' = Tail(storageQueue)
    /\ UNCHANGED <<backendMeasurements, measurements, hasAppliedBackendMeasurements,
                   saveTimeout, effects, edits>>
    /\ UNCHANGED <<app, isLoading, initialRoute, segments, selectedImage, isUploading,
                   upload_pc, alert, launches>>
    /\ UNCHANGED <<engine_vars, endpoint_vars, caller_vars, onboarding_vars,
                   analysis_vars>>

\* AsyncStorage completes the oldest operation issued, the getItem of a run
\* of the effect: getMeasurements resolves with what is stored now.
GetItemCompletes ==
    /\ storageQueue # << >>
    /\ Head(storageQueue).op = "getItem"
    /\ effects' = [effects EXCEPT ![Head(storageQueue).run].pc = "loaded",
                                  ![Head(storageQueue).run].saved =
                                      getMeasurements(asyncStorage)]
    /\ storageQueue' = Tail(storageQueue)
    /\ UNCHANGED <<backendMeasurements, measurements, hasAppliedBackendMeasurements,
                   saveTimeout, edits>>
    /\ UNCHANGED app_vars
    /\ UNCHANGED <<engine_vars, endpoint_vars, caller_vars, onboarding_vars,
                   analysis_vars>>

\* initializeMeasurements goes on after "await getMeasurements()" in run i.
\* With backend measurements not yet applied in its closure: they are parsed,
\* merged over what was saved, displayed and saved without awaiting, and
\* hasAppliedBackendMeasurements is set, which runs the effect again; if they
\* do not parse, what was saved is displayed.  Otherwise what was saved, if
\* anything, is displayed.
InitializeMeasurementsResumes(i) ==
    /\ effects[i].pc = "loaded"
    /\ LET saved == effects[i].saved
           parsed == JSON_parse(backendMeasurements, BackendGarmentMeasurements)
           merged == MergedMeasurements(saved, applyBackendMeasurements(parsed))
           ended == [effects EXCEPT ![i].pc = "done"]
       IN  IF backendMeasurements \notin {null, ""}
                /\ ~effects[i].hasAppliedBackendMeasurements
           THEN IF IsRaised(parsed)
                THEN /\ measurements' = IF saved # Unset THEN saved ELSE measurements
                     /\ effects' = ended
                     /\ UNCHANGED <<storageQueue, hasAppliedBackendMeasurements>>
                ELSE /\ measurements' = merged
                     /\ hasAppliedBackendMeasurements' = TRUE
                     /\ IF hasAppliedBackendMeasurements
                        THEN /\ effects' = ended
                             /\ storageQueue' =
                                    Append(storageQueue,
                                           [op |-> "setItem",
                                            value |-> JSON_stringify(merged)])
                        ELSE /\ effects' = Append(ended, EffectRun(TRUE, edits))
                             /\ storageQueue' =
                                    storageQueue
                                    \o <<[op |-> "setItem",
                                          value |-> JSON_stringify(merged)],
                                         [op |-> "getItem", run |-> Len(effects) + 1]>>
           ELSE /\ measurements' = IF saved # Unset THEN saved ELSE measurements
                /\ effects' = ended
                /\ UNCHANGED <<storageQueue, hasAppliedBackendMeasurements>>
    /\ UNCHANGED <<backendMeasurements, saveTimeout, edits>>
    /\ UNCHANGED app_vars
    /\ UNCHANGED <<engine_vars, endpoint_vars, caller_vars, onboarding_vars,
                   analysis_vars>>

\* handleMeasurementChange(key, value): the new measurements are displayed
\* and debouncedSave clears the pending timer and sets one for them.
HandleMeasurementChange ==
    /\ edits < MaxEdits
    /\ \E e \in EditChoices :
         LET newMeasurements == ChangedMeasurements(measurements, e[1], e[2], e[3])
         IN  /\ measurements' = newMeasurements
             /\ saveTimeout' = newMeasurements
    /\ edits' = edits + 1
    /\ UNCHANGED <<backendMeasurements, hasAppliedBackendMeasurements, effects,
                   storageQueue>>
    /\ UNCHANGED app_vars
    /\ UNCHANGED <<engine_vars, endpoint_vars, caller_vars, onboarding_vars,
                   analysis_vars>>

\* The 500 ms timer of debouncedSave fires: saveMeasurements(newMeasurements).
SaveTimeoutFires ==
    /\ saveTimeout # Unset
    /\ storageQueue' = Append(storageQueue,
                              [op |-> "setItem", value |-> JSON_stringify(saveTimeout)])
    /\ saveTimeout' = Unset
    /\ UNCHANGED <<backendMeasurements, measurements, hasAppliedBackendMeasurements,
                   effects, edits>>
    /\ UNCHANGED app_vars
    /\ UNCHANGED <<engine_vars, endpoint_vars, caller_vars, onboarding_vars,
                   analysis_vars>>

EditorNext ==
    \/ SetItemCompletes
    \/ GetItemCompletes
    \/ \E i \in 1..2 : i \in DOMAIN effects /\ InitializeMeasurementsResumes(i)
    \/ HandleMeasurementChange
    \/ SaveTimeoutFires

EditorSpec == EditorInit /\ [][EditorNext]_vars

\* AsyncStorage completes its operations, continuations run and the timer
\* fires.
EditorFairSpec ==
    /\ EditorSpec
    /\ WF_vars(SetItemCompletes)
    /\ WF_vars(GetItemCompletes)
    /\ WF_vars(\E i \in 1..2 : i \in DOMAIN effects /\ InitializeMeasurementsResumes(i))
    /\ WF_vars(SaveTimeoutFires)

\* ------------------------------------------------------ reading the state
\* calculate_calibration_factor has returned.
CalibrationReturned == pc \in {"body", "garment", "status", "done"}

\* The eight slots of body_measurements have been computed.
BodyComputed == pc \in {"garment", "status", "done"}

\* The three garment sets have been computed.
GarmentComputed == pc \in {"status", "done"}

\* calculate_measurements has returned result.
Returned == pc = "done"

Visible(i) == landmarks[i].visibility >= 50

AllVisible == \A i \in 0..32 : Visible(i)

VisibleCount == Cardinality({i \in 0..32 : Visible(i)})

Garments == {"shirt", "pants", "jacket"}

\* The body slots each garment field is computed from.
BasesOf(g, f) ==
    CASE g \in {"shirt", "jacket"} /\ f = "shoulder" -> {"shoulder_width"}
      [] g \in {"shirt", "jacket"} /\ f = "chest" -> {"chest_circumference"}
      [] g \in {"shirt", "jacket"} /\ f = "sleeves" -> {"arm_length", "shoulder_width"}
      [] g \in {"shirt", "jacket"} /\ f = "length" -> {"torso_length"}
      [] g = "pants" /\ f = "waist" -> {"waist_circumference"}
      [] g = "pants" /\ f = "inseam" -> {"inseam_length"}
      [] g = "pants" /\ f = "rise" -> {"torso_length"}
      [] g = "pants" /\ f = "leg" -> {"leg_opening"}

FieldsOf(g) == IF g = "pants" THEN {"waist", "inseam", "rise", "leg"}
               ELSE {"shoulder", "chest", "sleeves", "length"}

\* Every MeasurementValue of a returned result.
MeasurementValues(res) ==
    {res.body_measurements[k] : k \in Slots}
    \cup UNION {{res.garment_measurements[g][f] : f \in FieldsOf(g)} : g \in Garments}

IsMeasurementValue(m) ==
    /\ {"value", "unit", "confidence"} \subseteq DOMAIN m
    /\ m.value = NULL => m.confidence = 0

\* ------------------------------------------------------------------ claims

\* C1: for every 33-landmark frame and every height in [50,250],
\* calculate_measurements never raises and returns a complete result
\* (status, message, the 8 body slots, the 4 fields of each garment,
\* calibration_factor), failures showing only as null / confidence-0 slots.
C1_AlwaysReturnsCompleteResult ==
    /\ pc # "raised"
    /\ Returned =>
         /\ {"status", "message", "body_measurements", "garment_measurements",
             "calibration_factor"} \subseteq DOMAIN result
         /\ DOMAIN result.body_measurements = Slots
         /\ DOMAIN result.garment_measurements = Garments
         /\ \A g \in Garments : DOMAIN result.garment_measurements[g] = FieldsOf(g)
         /\ \A m \in MeasurementValues(result) : IsMeasurementValue(m)

\* C2: in every returned result, each of the 8 body values and 12 garment
\* values is null if and only if its confidence is 0.
C2_NullIffZeroConfidence ==
    Returned =>
        \A m \in MeasurementValues(result) : (m.value = NULL) <=> (m.confidence = 0)

\* C2 witness: a returned partial result with a null and a non-null body slot
\* and a null and a non-null garment field.
C2_Witness ==
    /\ Returned
    /\ result.status = "partial_success"
    /\ \E g \in Garments : \E f \in FieldsOf(g) :
           result.garment_measurements[g][f].value = NULL
    /\ \E g \in Garments : \E f \in FieldsOf(g) :
           result.garment_measurements[g][f].value # NULL

C4_FullVisibilityFullSuccess ==
    AllVisible =>
        /\ pc # "raised"
        /\ Returned =>
             /\ result.status = "success"
             /\ \A k \in Slots : result.body_measurements[k].value # NULL

\* C5: whenever landmark 11 or 12 has visibility < 0.5, shoulder_width is null
\* with confidence 0 and chest_circumference is null with confidence 0 and the
\* missing-dependency error.
C5_ShoulderNullPropagatesToChest ==
    (BodyComputed /\ (~Visible(11) \/ ~Visible(12))) =>
        /\ body_measurements.shoulder_width.value = NULL
        /\ body_measurements.shoulder_width.confidence = 0
        /\ body_measurements.chest_circumference.value = NULL
        /\ body_measurements.chest_circumference.confidence = 0
        /\ "error" \in DOMAIN body_measurements.chest_circumference
        /\ body_measurements.chest_circumference.error
               = "Cannot calculate without shoulder reference"

\* C5 witness: the slots are computed for a frame in which exactly one
\* shoulder (landmark 12) is below the threshold.
C5_Witness ==
    /\ BodyComputed
    /\ Visible(11)
    /\ ~Visible(12)
    /\ body_measurements.chest_circumference.value = NULL

\* C6: a non-null direct measurement implies that every landmark it uses is
\* visible: arm_length uses 11, 12 and the averaged wrists, inseam_length 23,
\* 24 and the averaged ankles, torso_length 11, 12, 23 and 24.
C6_NonNullImpliesLandmarksVisible ==
    BodyComputed =>
        /\ body_measurements.arm_length.value # NULL =>
               Visible(11) /\ Visible(12) /\ (Visible(15) \/ Visible(16))
        /\ body_measurements.inseam_length.value # NULL =>
               Visible(23) /\ Visible(24) /\ (Visible(27) \/ Visible(28))
        /\ body_measurements.torso_length.value # NULL =>
               Visible(11) /\ Visible(12) /\ Visible(23) /\ Visible(24)

\* leg is hip x 0.47 rounded to 0.1 cm (both in tenths of a centimetre).
IsLegOfHip(leg, hip) == Abs(100 * leg - 47 * hip) <= 50

\* C7 (as stated): leg_opening is hip_width x 0.47 (rounded to 0.1 cm) when
\* hip_width is non-null and the fallback 18.0 cm with confidence 0.50 when it
\* is not; whether it is produced depends on hip_width only.
C7_LegOpeningFromHipOnly ==
    BodyComputed =>
        IF body_measurements.hip_width.value # NULL
        THEN /\ body_measurements.leg_opening.value # NULL
             /\ IsLegOfHip(body_measurements.leg_opening.value,
                           body_measurements.hip_width.value)
        ELSE /\ body_measurements.leg_opening.value = 180
             /\ body_measurements.leg_opening.confidence = 50

\* C7 (amended): leg_opening is null with confidence 0 whenever ankle 27 or 28
\* is not visible, whatever hip_width is; with both ankles visible it is
\* hip_width x 0.47 (rounded to 0.1 cm, confidence 0.75) when hip_width is
\* neither null nor 0.0, and 18.0 cm with confidence 0.50 otherwise.
C7_LegOpeningNeedsAnkles ==
    BodyComputed =>
        IF ~(Visible(27) /\ Visible(28))
        THEN /\ body_measurements.leg_opening.value = NULL
             /\ body_measurements.leg_opening.confidence = 0
        ELSE IF body_measurements.hip_width.value \notin {NULL, 0}
        THEN /\ body_measurements.leg_opening.value # NULL
             /\ IsLegOfHip(body_measurements.leg_opening.value,
                           body_measurements.hip_width.value)
             /\ body_measurements.leg_opening.confidence = 75
        ELSE /\ body_measurements.leg_opening.value = 180
             /\ body_measurements.leg_opening.confidence = 50

\* C7 witness: hip_width is computed and positive, an ankle is not visible,
\* and leg_opening is null.
C7_Witness ==
    /\ BodyComputed
    /\ body_measurements.hip_width.value > 0
    /\ ~Visible(27)
    /\ body_measurements.leg_opening.value = NULL

\* C8: if any body measurement a garment field is computed from is null, the
\* field is null with confidence 0 and no notes; in particular the sleeves
\* are null whenever arm_length or shoulder_width is null.
C8_NullBaseNullGarment ==
    GarmentComputed =>
        \A g \in Garments : \A f \in FieldsOf(g) :
            (\E b \in BasesOf(g, f) : body_measurements[b].value = NULL) =>
                /\ garment_measurements[g][f].value = NULL
                /\ garment_measurements[g][f].confidence = 0
                /\ "notes" \notin DOMAIN garment_measurements[g][f]

RECURSIVE SumSeq(_)
SumSeq(q) == IF q = << >> THEN 0 ELSE Head(q) + SumSeq(Tail(q))

\* c is the average of the visibilities vs, capped at ceiling and rounded to
\* two decimals (c, ceiling and vs in hundredths).
IsCappedAverage(c, ceiling, vs) ==
    LET n == Len(vs)
        capped == Min(n * ceiling, SumSeq(vs))
    IN  2 * Abs(n * c - capped) <= n

Vis(i) == landmarks[i].visibility

\* The visibilities of the landmarks among is that are visible.
RECURSIVE VisibleOf(_)
VisibleOf(is) ==
    IF is = << >> THEN << >>
    ELSE (IF Visible(Head(is)) THEN <<Vis(Head(is))>> ELSE << >>) \o VisibleOf(Tail(is))

C10_CalibrationNeverFails ==
    LET span == Abs(LowerHeel(landmarks).y - landmarks[0].y)
        \* ratio = span * 1.15 / height_cm, compared as 23 * span vs 20 * height_cm * r
        Within(lo, hi) == /\ lo * 20 * height_cm <= 10 * 23 * span
                          /\ 10 * 23 * span <= hi * 20 * height_cm
    IN  /\ exc # "ZeroDivisionError"
        /\ CalibrationReturned =>
              calibration_result.confidence
                  = IF Within(8, 12) THEN 95 ELSE IF Within(6, 14) THEN 80 ELSE 60

\* The handler of POST /measure has ended by raising an HTTPException.
Rejected == pc = "http_exception"

C12_ShortFrameRejected ==
    (landmarks # Unset /\ len(landmarks) < 33) =>
        /\ ~measured
        /\ pc # "returned"
        /\ Rejected => response.error_code = "INSUFFICIENT_LANDMARKS"

\* C13: the outcome of calculate_measurements is a function of (frame,
\* height_cm) only: any two calls made by a process with the same frame and
\* height have the same outcome (the same result, or the same exception),
\* whether weight_kg is absent or present and whatever calls were made before.
C13_OutcomeDependsOnFrameAndHeightOnly ==
    \A a \in history : \A b \in history :
        (a.landmarks = b.landmarks /\ a.height_cm = b.height_cm) =>
            a.outcome = b.outcome

\* C13 witness: a call without weight_kg and a call with it on the same frame
\* and height, both returning a result, and a call on another frame.
C13_Witness ==
    \E a \in history : \E b \in history : \E c \in history :
        /\ a.landmarks = b.landmarks
        /\ a.height_cm = b.height_cm
        /\ a.weight_kg = NULL
        /\ b.weight_kg # NULL
        /\ ~IsRaised(a.outcome)
        /\ c.landmarks # a.landmarks

\* C14: whenever the status is "error" (all 8 body slots null), every field
\* of the shirt, the pants and the jacket has value null and confidence 0.
C14_FailedAllGarmentsNull ==
    (Returned /\ result.status = "error") =>
        \A g \in Garments : \A f \in FieldsOf(g) :
            /\ result.garment_measurements[g][f].value = NULL
            /\ result.garment_measurements[g][f].confidence = 0

\* C14 witness: a result with status "error" is returned for a frame whose
\* 25 unread landmarks are all visible.
C14_Witness ==
    /\ Returned
    /\ result.status = "error"
    /\ \A k \in Slots : result.body_measurements[k].value = NULL
    /\ Visible(0)
    /\ Visible(29)

\* The slots named by the warnings w whose text is t.
NamedBy(w, t) ==
    UNION {{w[i].names[j] : j \in 1..Len(w[i].names)} :
              i \in {n \in 1..Len(w) : w[n].text = t}}

UpperBodyOnly ==
    /\ \A i \in 0..22 : Visible(i)
    /\ \A i \in 23..32 : ~Visible(i)

\* C16: for a valid height and a frame in which landmarks 0-22 are visible
\* and landmarks 23-32 are not, a result is returned whose status is
\* "partial_success", inseam_length is null, pants.waist, pants.inseam and
\* pants.leg are null, and pants.rise is non-null only if torso_length is.
C16_LowerBodyMissing ==
    UpperBodyOnly =>
        /\ pc # "raised"
        /\ Returned =>
             /\ result.status = "partial_success"
             /\ result.body_measurements.inseam_length.value = NULL
             /\ result.garment_measurements.pants.waist.value = NULL
             /\ result.garment_measurements.pants.inseam.value = NULL
             /\ result.garment_measurements.pants.leg.value = NULL
             /\ result.garment_measurements.pants.rise.value # NULL =>
                    result.body_measurements.torso_length.value # NULL

\* The quantity a garment field is rounded from, in thousandths of a
\* centimetre: the base (body values are in tenths) plus its allowance, with
\* sleeves = arm_length + shoulder_width / 2 and 1 in = 2.54 cm.
UnroundedCm(bm, g, f) ==
    CASE g = "shirt" /\ f = "shoulder" -> 100 * bm.shoulder_width.value
      [] g = "shirt" /\ f = "chest" -> 100 * bm.chest_circumference.value + 2 * 2540
      [] g = "shirt" /\ f = "sleeves" ->
             100 * bm.arm_length.value + 50 * bm.shoulder_width.value
      [] g = "shirt" /\ f = "length" -> 100 * bm.torso_length.value + 15000
      [] g = "jacket" /\ f = "shoulder" -> 100 * bm.shoulder_width.value + 1000
      [] g = "jacket" /\ f = "chest" -> 100 * bm.chest_circumference.value + 4 * 2540
      [] g = "jacket" /\ f = "sleeves" ->
             100 * bm.arm_length.value + 50 * bm.shoulder_width.value + 2500
      [] g = "jacket" /\ f = "length" -> 100 * bm.torso_length.value + 18000
      [] g = "pants" /\ f = "waist" -> 100 * bm.waist_circumference.value
      [] g = "pants" /\ f = "inseam" -> 100 * bm.inseam_length.value
      [] g = "pants" /\ f = "rise" -> 28 * bm.torso_length.value
      [] g = "pants" /\ f = "leg" -> 100 * bm.leg_opening.value

\* inches (in hundredths) is within 0.25 in of cm (in thousandths) / 2.54.
WithinQuarterInch(inches, cm) == Abs(254 * inches - 10 * cm) <= 6350

\* C17: every non-null garment value is an exact multiple of 0.5 in and is
\* within 0.25 in of the unrounded quantity (base in cm plus allowance,
\* divided by 2.54): shirt chest +2 in, jacket chest +4 in, jacket shoulder
\* +1 cm, jacket sleeves +2.5 cm, shirt length +15 cm, jacket length +18 cm,
\* pants rise torso x 0.28.  (The sleeves are taken where all their bases are
\* non-null.)
C17_HalfInchOfBasePlusAllowance ==
    GarmentComputed =>
        \A g \in Garments : \A f \in FieldsOf(g) :
            (/\ garment_measurements[g][f].value # NULL
             /\ \A b \in BasesOf(g, f) : body_measurements[b].value # NULL) =>
                /\ garment_measurements[g][f].value % 50 = 0
                /\ WithinQuarterInch(garment_measurements[g][f].value,
                                     UnroundedCm(body_measurements, g, f))

\* C18: chest_circumference is null iff shoulder_width is null and otherwise
\* is shoulder_width.value x 2.2 rounded to 0.1 cm with confidence 0.75;
\* waist_circumference is null iff hip_width is null and otherwise is
\* hip_width.value x 2.0 x 0.90 rounded to 0.1 cm with confidence 0.70 (all
\* values in tenths of a centimetre).
C18_RatioSlotsAgreeWithBases ==
    BodyComputed =>
        LET shoulder == body_measurements.shoulder_width
            chest == body_measurements.chest_circumference
            hip == body_measurements.hip_width
            waist == body_measurements.waist_circumference
        IN  /\ (chest.value = NULL) <=> (shoulder.value = NULL)
            /\ chest.value # NULL =>
                   /\ Abs(10 * chest.value - 22 * shoulder.value) <= 5
                   /\ chest.confidence = 75
            /\ (waist.value = NULL) <=> (hip.value = NULL)
            /\ waist.value # NULL =>
                   /\ Abs(10 * waist.value - 18 * hip.value) <= 5
                   /\ waist.confidence = 70

\* C18 witness: the shoulders coincide (shoulder_width 0.0, chest 0.0), the
\* hip width is positive and the waist follows it.
C18_Witness ==
    /\ BodyComputed
    /\ body_measurements.shoulder_width.value = 0
    /\ body_measurements.chest_circumference.value = 0
    /\ body_measurements.hip_width.value > 0
    /\ body_measurements.waist_circumference.value > 0

C20_WelcomeSkippedOnceCompleted ==
    (app = "running" /\ ~isLoading) =>
        /\ asyncStorage.hasCompletedWelcome = null => initialRoute = "/welcome"
        /\ (hasCompletedWelcome(asyncStorage) /\ segments # "onboarding") =>
               initialRoute # "/welcome" /\ segments # "welcome"

\* C21: the welcome page navigates to the onboarding only from a step of
\* handleUploadPhoto in which a photo is selected, uploadProfilePhoto has
\* reported success and setWelcomeCompleted has stored the flag; a handler
\* that ends without navigating (the upload reported failure, or storing the
\* flag threw) leaves the user on the welcome page with an alert, the storage
\* untouched and the photo still selected, and whenever the handler has ended
\* isUploading is false, so that the upload can be started again.
C21_NavigatesOnlyAfterUploadAndFlag ==
    [][/\ (segments # "onboarding" /\ segments' = "onboarding") =>
              /\ segments = "welcome"
              /\ selectedImage # null
              /\ upload_pc = "setWelcomeCompleted"
              /\ uploadProfilePhoto(selectedImage).success
              /\ hasCompletedWelcome(asyncStorage')
       /\ (app = "running" /\ upload_pc # "idle" /\ upload_pc' = "idle"
              /\ segments' # "onboarding") =>
              /\ segments' = "welcome"
              /\ alert' \in {"Upload Failed", "Error"}
              /\ asyncStorage' = asyncStorage
              /\ selectedImage' = selectedImage /\ selectedImage' # null
       /\ upload_pc' = "idle" => ~isUploading'
      ]_vars

\* C21 witness: on a first install the upload handler has run to its end for
\* a selected photo and the onboarding is shown, the flag being stored.
C21_Witness ==
    /\ segments = "onboarding"
    /\ launches = 1
    /\ selectedImage \in PhotoUris
    /\ hasCompletedWelcome(asyncStorage)
    /\ upload_pc = "idle"
    /\ ~isUploading

\* C30: a garment field computed from a single body slot is null only if that
\* slot is null: a slot with a non-null value, 0.0 included, gives non-null
\* garment fields, so that a result whose status is "success" has no null
\* garment field.
C30_SingleBaseFieldNullOnlyIfBaseNull ==
    Returned =>
        /\ \A g \in Garments : \A f \in FieldsOf(g) :
              (\E b \in Slots : BasesOf(g, f) = {b}
                                  /\ result.body_measurements[b].value # NULL)
                  => result.garment_measurements[g][f].value # NULL
        /\ result.status = "success" =>
              \A g \in Garments : \A f \in FieldsOf(g) :
                  result.garment_measurements[g][f].value # NULL

\* C24: analyzeMeasurements never rejects: whatever fetch, response.json()
\* and the onProgress callback do, its promise resolves to a response with a
\* status; with an empty photoUri, or a heightCm that is missing or outside
\* [50,250], it resolves with status "error" and no request was issued; a
\* non-OK HTTP response resolves with status "error" and neither body nor
\* garment measurements.
C24_AnalyzeNeverRejects ==
    settled # Unset =>
        /\ settled.settled = "resolved"
        /\ settled.value.status \in {"success", "partial_success", "error"}
        /\ (call.photoUri = "" \/ call.heightCm = NULL \/ call.heightCm < 5000
                \/ call.heightCm > 25000) =>
               /\ settled.value.status = "error"
               /\ settled.requests = << >>
        /\ (call.env.fetch.outcome = "response" /\ ~call.env.fetch.ok) =>
               /\ settled.value.status = "error"
               /\ "body_measurements" \notin DOMAIN settled.value
               /\ "garment_measurements" \notin DOMAIN settled.value

\* C24 witness: a valid call was sent and answered by a non-OK response
\* whose body carries measurements, while the last onProgress call would
\* have thrown; it resolved with status "error".
C24_Witness ==
    /\ settled # Unset
    /\ call.photoUri # ""
    /\ call.heightCm = 17500
    /\ call.env.onProgress = 4
    /\ call.env.fetch.outcome = "response"
    /\ ~call.env.fetch.ok
    /\ call.env.fetch.body \in {JSON_stringify(b) : b \in OkBodies}
    /\ Len(settled.requests) = 1
    /\ settled.value.status = "error"

\* C22: after a successful photo upload on the welcome page the onboarding
\* screen is opened with that photo's URI as its photoUri parameter (so that
\* submitting a valid form there calls analyzeMeasurements with the photo
\* before navigating to the garment editor).
C22_OnboardingReceivesPhotoUri ==
    (segments = "onboarding" /\ selectedImage # null) =>
        params_photoUri = selectedImage

\* The submissions whose handler has not ended.
InFlight == {i \in DOMAIN submissions : submissions[i].pc # "done"}

\* C27: onboarding submission is single-flight: handleContinue goes past its
\* guard only with a valid form and no submission in progress, so at most one
\* submission is in flight (and isSubmitting is set while it is), and within
\* a submission saveUserProfile is called exactly once, before
\* analyzeMeasurements, which is called at most once.
C27_SingleFlightSubmission ==
    /\ Cardinality(InFlight) <= 1
    /\ InFlight # {} => isSubmitting
    /\ \A i \in DOMAIN submissions :
         /\ isFormValid(submissions[i].height, submissions[i].weight)
         /\ submissions[i].calls \in {<<"saveUserProfile">>,
                                      <<"saveUserProfile", "analyzeMeasurements">>}
         /\ submissions[i].pc = "saveUserProfile" =>
                submissions[i].calls = <<"saveUserProfile">>

\* C27 witness: a first submission has ended because saveUserProfile threw
\* and a second one, started afterwards, has saved the profile and is in
\* flight in its analysis.
C27_Witness ==
    /\ Len(submissions) = 2
    /\ submissions[1].pc = "done"
    /\ submissions[1].saved = "threw"
    /\ submissions[2].pc = "analyzeMeasurements"
    /\ submissions[2].calls = <<"saveUserProfile", "analyzeMeasurements">>
    /\ isSubmitting

\* C28: every onboarding submission ends, and when no submission is in
\* flight isSubmitting is false and the progress message is empty, whichever
\* way the handler ended: navigation after a successful analysis, the alert
\* of a partial result or of an error followed by the early return, no
\* photo, or saveUserProfile or the analysis throwing.
C28_SubmissionEndsWithFlagsCleared ==
    /\ [](InFlight = {} => (~isSubmitting /\ analysisProgress = ""))
    /\ \A i \in 1..MaxSubmissions :
         [](i \in DOMAIN submissions =>
               <>(i \in DOMAIN submissions /\ submissions[i].pc = "done"))

\* C28 witness: a submission has ended by the early return after the alert
\* of a failed analysis; the flag and the progress message are cleared while
\* the alert is still open.
C28_Witness ==
    /\ Len(submissions) = 1
    /\ submissions[1].pc = "done"
    /\ submissions[1].result # Unset
    /\ submissions[1].result.status = "error"
    /\ alert = "Measurement Analysis Failed"
    /\ ~isSubmitting
    /\ analysisProgress = ""

\* A step that leaves the onboarding page.
Navigates == segments = "onboarding" /\ segments' # "onboarding"

\* C29: the onboarding page navigates to the garment editor with a
\* measurements parameter only for an analysis whose status is "success" (at
\* once) or "partial_success" (on "Continue"), the parameter being that
\* result's garment measurements; an analysis with status "error" shows its
\* alert and does not navigate, and from that alert "Continue Anyway" leads to
\* the garment editor without measurements and "Retake Photo" to the welcome
\* page; when saveUserProfile throws the handler ends with neither an
\* analysis nor a navigation.
C29_NavigationFollowsAnalysisStatus ==
    [][/\ (Navigates /\ segments' = "garment-editor" /\ backendMeasurements' # null) =>
              \E i \in DOMAIN submissions :
                  LET r == submissions'[i].result
                  IN  /\ r # Unset
                      /\ Property(r, "status") \in {"success", "partial_success"}
                      /\ backendMeasurements' = JSON_stringify(r.garment_measurements)
                      /\ r.status = "success" =>
                             submissions[i].pc = "analyzeMeasurements"
                      /\ r.status = "partial_success" =>
                             alert = "Partial Measurements"
       /\ \A i \in DOMAIN submissions :
              (/\ submissions[i].pc = "analyzeMeasurements"
               /\ submissions'[i].pc = "done"
               /\ Property(submissions'[i].result, "status") = "error") =>
                  /\ ~Navigates
                  /\ alert' = "Measurement Analysis Failed"
       /\ (alert = "Measurement Analysis Failed" /\ Navigates) =>
              /\ alert' = null
              /\ \/ segments' = "garment-editor" /\ backendMeasurements' = null
                 \/ segments' = "welcome"
       /\ \A i \in DOMAIN submissions :
              (submissions[i].pc = "saveUserProfile"
                   /\ submissions'[i].saved = "threw") =>
                  /\ ~Navigates
                  /\ submissions'[i].pc = "done"
                  /\ submissions'[i].calls = <<"saveUserProfile">>
                  /\ submissions'[i].result = Unset
      ]_vars

\* C29 witness: the garment editor was opened with the garment measurements
\* of a partial result.
C29_Witness ==
    /\ segments = "garment-editor"
    /\ backendMeasurements # null
    /\ \E i \in DOMAIN submissions :
         /\ submissions[i].result # Unset
         /\ submissions[i].result.status = "partial_success"
         /\ backendMeasurements =
                JSON_stringify(submissions[i].result.garment_measurements)

\* A step in which run i of the effect goes on after its read.
Resumes(i) == effects[i].pc = "loaded" /\ effects'[i].pc = "done"

\* C23: when backend garment measurements are applied in the garment editor,
\* only fields that are empty or at their default are overwritten with the
\* backend value: a field whose saved value is neither empty nor the default
\* keeps that value.
C23_BackendFillsOnlyEmptyOrDefault ==
    [][\A i \in DOMAIN effects :
          (Resumes(i) /\ ~hasAppliedBackendMeasurements
               /\ hasAppliedBackendMeasurements' /\ effects[i].saved # Unset) =>
              \A g \in GarmentTypes : \A k \in KeysOf(g) :
                  effects[i].saved[g][k] \notin {"", DEFAULT_MEASUREMENTS[g][k]} =>
                      measurements'[g][k] = effects[i].saved[g][k]
      ]_vars

\* C25: measurements auto-save: once edits have been made and no further
\* edit occurs, what is stored is eventually, and from then on, the editor's
\* current measurements.
C25_AutoSaveReachesStorage ==
    <>[](edits > 0 => asyncStorage.measurements = JSON_stringify(measurements))

\* C26: the asynchronous read of the initialization effect never replaces
\* newer displayed state with older stored data: a run of the effect that
\* goes on after its read leaves the displayed measurements as they are if
\* the user has edited since the run called getMeasurements, or if the merged
\* backend measurements are already displayed.
C26_LoadNeverReplacesNewerState ==
    [][\A i \in DOMAIN effects :
          (Resumes(i) /\ (edits > effects[i].editsAtStart
                              \/ hasAppliedBackendMeasurements)) =>
              measurements' = measurements
      ]_vars

====
